---- MODULE Spec2Model ----
(***************************************************************************)
(* Verification model of the AI engine: the VRAM-budgeted ModelManager     *)
(* (src/_shared/ai-engine/src/model_manager.py) and the job scheduler of   *)
(* the JSON-RPC server (src/ai-engine/src/server.py).                      *)
(*                                                                         *)
(* Byte quantities are counted in units of 50,000,000 bytes: every VRAM    *)
(* estimate of the source is a multiple of that unit, and for sums of      *)
(* such multiples "sum > 6*1024^3 bytes" is the same as "sum > 128 units". *)
(* Timestamps are the name of the assignment that took them ("t_done" is   *)
(* the time.time() of line 245), so that an overwrite shows.  Fields that  *)
(* no modelled path reads (Job.id, Job.created_at, ModelInfo.name, type,   *)
(* size, last_used, load_options) are left out.                            *)
(***************************************************************************)
EXTENDS Integers, Sequences, FiniteSets, TLC

\* ------------------------------------------------------------------------
\* Bounds of the model
\* ------------------------------------------------------------------------
MaxJobs == 2        \* jobs accepted by jobs.start in one run

MaxCalls == 2       \* on_progress calls one handler makes

MaxLines == 2       \* input lines run() reads in one run

\* register / unregister calls made on a JobRegistry in one run
MaxOps == 4

\* advances of the clock in one run of the cache
MaxTicks == 4

\* ------------------------------------------------------------------------
\* ModelManager: constants of the source
\* ------------------------------------------------------------------------
MAX_GPU_VRAM_BYTES == 128

DefaultEstimate == 10

MODEL_VRAM_ESTIMATES ==
    [ m \in { "easyocr-en", "easyocr-multilingual",
              "sentence-transformers/all-MiniLM-L6-v2",
              "sentence-transformers/all-mpnet-base-v2",
              "nsfw-classifier", "whisper-tiny",
              "whisper-base", "whisper-small", "whisper-medium" } |->
        CASE m = "easyocr-en"           -> 10
          [] m = "easyocr-multilingual" -> 16
          [] m = "sentence-transformers/all-MiniLM-L6-v2"  -> 6
          [] m = "sentence-transformers/all-mpnet-base-v2" -> 10
          [] m = "nsfw-classifier"      -> 8
          [] m = "whisper-tiny"         -> 3
          [] m = "whisper-base"         -> 6
          [] m = "whisper-small"        -> 20
          [] m = "whisper-medium"       -> 60 ]

\* the ids of the static catalog; every one of them names a concrete loader
DEFAULT_MODELS == DOMAIN MODEL_VRAM_ESTIMATES

\* an id that is in no registry
UnknownId == "no-such-model"

\* the ids callers pass to the manager: four catalog entries and an unknown id
ModelIds == { "whisper-medium", "whisper-small", "easyocr-multilingual",
              "easyocr-en", UnknownId }

\* the budgets the manager is constructed with (the default and a tight one)
MaxVramChoices == {MAX_GPU_VRAM_BYTES, 70}

\* the threads that call the manager: the dispatcher (models.load,
\* models.unload) and a pool worker (ensure_loaded)
Threads == {"dispatcher", "worker"}

NoInstance == "None"

ModelInfo == [loaded |-> FALSE, instance |-> NoInstance, memory_usage |-> 0]

\* dicts are sets of (key, value) pairs.  DEFAULT_MODELS[id]["config"] for
\* the ids whose catalog entry has a "config" key
CatalogConfig(model_id) ==
    CASE model_id = "easyocr-en"     -> { <<"lang_list", "en">> }
      [] model_id = "easyocr-multilingual" -> { <<"lang_list", "en,es,fr,de,it,pt">> }
      [] model_id = "whisper-tiny"   -> { <<"model_size", "tiny">> }
      [] model_id = "whisper-base"   -> { <<"model_size", "base">> }
      [] model_id = "whisper-small"  -> { <<"model_size", "small">> }
      [] model_id = "whisper-medium" -> { <<"model_size", "medium">> }

\* the catalog ids whose entry has a "config" key (the embedding and nsfw
\* entries have none)
ConfiguredIds == { "easyocr-en", "easyocr-multilingual", "whisper-tiny",
                   "whisper-base", "whisper-small", "whisper-medium" }

\* options = None, or an empty dict: both are false at "if options:"
NoOptions == {}

\* the options callers pass to load_model
OptionChoices == { NoOptions, { <<"device", "cpu">> },
                   { <<"model_size", "large">> } }

\* a dict object of its own, and a reference to the dict object that is
\* the "config" entry of DEFAULT_MODELS[model_id]
OwnDict(d) == [shared |-> FALSE, of |-> "", dict |-> d]

CatalogDict(model_id) == [shared |-> TRUE, of |-> model_id, dict |-> {}]

\* what a call returned, and whether it reached the concrete loader
Ret(op, model_id, result, loader) ==
    [op |-> op, id |-> model_id, result |-> result, loader |-> loader]

VARIABLES
    max_vram,            \* ModelManager.max_vram
    current_vram_usage,  \* ModelManager.current_vram_usage
    models,              \* ModelManager.models: id -> ModelInfo
    mret,                \* the last completed sequential call and what it returned
    refused,             \* ids whose load the admission check has refused so far
    tpc,                 \* per thread: where it is inside load_model / unload_model
    targ,                \* per thread: the model_id argument of its call
    ttmp,                \* per thread: the value it read for an update of the counter
    handlers,            \* JobRegistry._handlers: the registered job types
    max_workers,         \* size of the ThreadPoolExecutor
    jobs,                \* EngineServer.jobs: job id -> Job, ids are 1, 2, ...
    futures,             \* EngineServer.futures: job id -> state of its Future
    wpc,                 \* per job: where the pool is with its work item
    wexc,                \* per job: the value or exception the worker holds
    dpc,                 \* where the dispatcher thread is inside a request
    darg,                \* the jobId of the request being handled
    dtmp,                \* the response being built by jobs.status
    resp,                \* the last response the dispatcher sent
    lock,                \* EngineServer.lock: the thread that holds it
    events,              \* the progress events written to stdout, in order
    hcalls,              \* per job: the on_progress calls its handler has made
    rpc,                 \* where run() is with the current input line
    line,                \* the input line run() is handling
    replies,             \* the responses written for that line, in order
    nlines,              \* the number of lines read so far
    _handlers,           \* a JobRegistry's dict: (type, handler) in insertion order
    rlog,                \* the register / unregister calls made on it, in order
    rret,                \* what the last of these calls returned
    files,               \* Cache: key -> the entry in the file of that key
    now,                 \* time.time(), counted in half milliseconds
    nticks,              \* the number of advances of the clock so far
    lastset,             \* per key: the last set(key, value, ttl) and its time
    cret,                \* the last call on the cache and what it returned
    listed,              \* the result of the last jobs.list request
    configs,             \* DEFAULT_MODELS[id]["config"], the dict objects of the catalog
    load_options,        \* ModelInfo.load_options of every registered model
    opt_arg,             \* the options argument of the last load_model call
    priorities,          \* per job: the priority argument of its jobs.start
    job_registry,        \* EngineServer.job_registry: (type, handler) pairs
    whandler,            \* per job: the local variable handler of _run_job
    stdout               \* sys.stdout: what the write calls of print put there

mmVars == <<max_vram, current_vram_usage, models>>

seqVars == <<mret, refused>>

thVars == <<tpc, targ, ttmp>>

\* the lock and the progress stream, which most steps leave alone
runVars == <<rpc, line, replies, nlines>>

\* a JobRegistry driven on its own
regyVars == <<_handlers, rlog, rret>>

\* a Cache driven on its own
cacheVars == <<files, now, nticks, lastset, cret>>

\* the option dicts the manager hands around
optVars == <<configs, load_options, opt_arg>>

moreVars == <<optVars, priorities, job_registry, whandler, stdout>>

libVars == <<regyVars, cacheVars, listed, moreVars>>

auxVars == <<lock, events, hcalls, runVars, libVars>>

regVars == <<handlers, max_workers, auxVars>>

jobVars == <<jobs, futures, wpc, wexc>>

dispVars == <<dpc, darg, dtmp, resp>>

srvVars == <<handlers, max_workers, jobs, futures, wpc, wexc,
             dpc, darg, dtmp, resp, auxVars>>

vars == <<max_vram, current_vram_usage, models, mret, refused, tpc, targ, ttmp,
          handlers, max_workers, jobs, futures, wpc, wexc,
          dpc, darg, dtmp, resp, lock, events, hcalls,
          rpc, line, replies, nlines, _handlers, rlog, rret,
          files, now, nticks, lastset, cret, listed,
          configs, load_options, opt_arg, priorities, job_registry, whandler,
          stdout>>

\* ------------------------------------------------------------------------
\* ModelManager: pure helpers
\* ------------------------------------------------------------------------
_estimate_vram_usage(model_id) ==
    IF model_id \in DOMAIN MODEL_VRAM_ESTIMATES
    THEN MODEL_VRAM_ESTIMATES[model_id]
    ELSE DefaultEstimate

\* the admission check switched off
_check_vram_budget_Off(model_id, usage, maximum) == TRUE

\* a load that brings the counter exactly to the maximum is refused
_check_vram_budget_Strict(model_id, usage, maximum) ==
    usage + _estimate_vram_usage(model_id) < maximum

\* lines 199-211: False if projected > self.max_vram
_check_vram_budget(model_id, usage, maximum) ==
    ~ (usage + _estimate_vram_usage(model_id) > maximum)

Max(a, b) == IF a > b THEN a ELSE b

RECURSIVE SumCharged(_, _)
SumCharged(ms, ids) ==
    IF ids = {} THEN 0
    ELSE LET i == CHOOSE x \in ids : TRUE
         IN  (IF ms[i].loaded THEN ms[i].memory_usage ELSE 0)
             + SumCharged(ms, ids \ {i})

\* the sum of the charged cost over the models whose loaded flag is true
ChargedTotal == SumCharged(models, DOMAIN models)

\* ------------------------------------------------------------------------
\* ModelManager.__init__
\* ------------------------------------------------------------------------
MMInit(budgets) ==
    /\ max_vram \in budgets
    /\ current_vram_usage = 0
    /\ models = [m \in DEFAULT_MODELS |-> ModelInfo]
    /\ mret = Ret("none", "", FALSE, "not_called")
    /\ refused = {}
    /\ tpc = [t \in Threads |-> "idle"]
    /\ targ = [t \in Threads |-> ""]
    /\ ttmp = [t \in Threads |-> 0]

\* ------------------------------------------------------------------------
\* ModelManager.load_model and unload_model: the state updates of their bodies
\* ------------------------------------------------------------------------
\* lines 251-258: the record of a model once its loader has returned
Loaded(ms, model_id) ==
    [ms EXCEPT ![model_id] =
        [loaded |-> TRUE, instance |-> model_id,
         memory_usage |-> _estimate_vram_usage(model_id)]]

\* the instance is stored although the loader raised
LoadFailed_KeepsInstance(ms, model_id) ==
    [ms EXCEPT ![model_id].instance = model_id]

\* lines 270-272: the records after the loader raised (nothing was assigned)
LoadFailed(ms, model_id) == ms

\* line 259: self.current_vram_usage += estimated_vram
Charge(usage, model_id) == usage + _estimate_vram_usage(model_id)

\* the charged cost stays in the record
Unloaded_KeepsCost(ms, model_id) ==
    [ms EXCEPT ![model_id].loaded = FALSE, ![model_id].instance = NoInstance]

\* lines 339-341: the record of a model once it is unloaded
Unloaded(ms, model_id) == [ms EXCEPT ![model_id] = ModelInfo]

\* the counter is not decremented on unload
Release_NoDecrement(usage, freed_vram) == usage

\* line 344: self.current_vram_usage = max(0, self.current_vram_usage - freed_vram)
Release(usage, freed_vram) == Max(0, usage - freed_vram)

\* a loaded model is taken for one that is not loaded
IsLoaded_Never(ms, model_id) == FALSE

\* lines 229-230 and 329-330: model = self.models[model_id]; model.loaded
IsLoaded(ms, model_id) == ms[model_id].loaded

\* a registered id outside the catalog gets a working loader
LoaderRaises_CatalogIgnored(model_id, outcome) == outcome = "raises"

\* lines 244-251: only the ids of DEFAULT_MODELS have a loader; for any other
\* registered id _load_model_instance raises ValueError("Unknown model loader")
LoaderRaises(model_id, outcome) ==
    outcome = "raises" \/ model_id \notin DEFAULT_MODELS

\* what a concrete loader, or the cleanup after an unload, does
Outcomes == {"returns", "raises"}

\* ------------------------------------------------------------------------
\* ModelManager.load_model, called by one thread at a time.
\* outcome is what the concrete loader does if it is invoked.
\* ------------------------------------------------------------------------
LoadModel(model_id, outcome) ==
    /\ UNCHANGED <<max_vram, thVars, srvVars>>
    /\ \/ /\ model_id \notin DOMAIN models
          /\ mret' = Ret("load", model_id, FALSE, "not_called")
          /\ UNCHANGED <<current_vram_usage, models, refused>>
       \/ /\ model_id \in DOMAIN models
          /\ IsLoaded(models, model_id)
          /\ mret' = Ret("load", model_id, TRUE, "not_called")
          /\ UNCHANGED <<current_vram_usage, models, refused>>
       \/ /\ model_id \in DOMAIN models
          /\ ~ IsLoaded(models, model_id)
          /\ ~ _check_vram_budget(model_id, current_vram_usage, max_vram)
          /\ mret' = Ret("load", model_id, FALSE, "not_called")
          /\ refused' = refused \cup {model_id}
          /\ UNCHANGED <<current_vram_usage, models>>
       \/ /\ model_id \in DOMAIN models
          /\ ~ IsLoaded(models, model_id)
          /\ _check_vram_budget(model_id, current_vram_usage, max_vram)
          /\ LoaderRaises(model_id, outcome)
          /\ models' = LoadFailed(models, model_id)
          /\ mret' = Ret("load", model_id, FALSE, "raised")
          /\ UNCHANGED <<current_vram_usage, refused>>
       \/ /\ model_id \in DOMAIN models
          /\ ~ IsLoaded(models, model_id)
          /\ _check_vram_budget(model_id, current_vram_usage, max_vram)
          /\ ~ LoaderRaises(model_id, outcome)
          /\ models' = Loaded(models, model_id)
          /\ current_vram_usage' = Charge(current_vram_usage, model_id)
          /\ mret' = Ret("load", model_id, TRUE, "returned")
          /\ UNCHANGED refused

\* ------------------------------------------------------------------------
\* ModelManager.unload_model, called by one thread at a time.
\* cleanup is what gc.collect() and torch.cuda.empty_cache() (lines 347-356)
\* do after the record is cleared: they return, or raise into line 366.
\* ------------------------------------------------------------------------
UnloadModel(model_id, cleanup) ==
    /\ UNCHANGED <<max_vram, thVars, srvVars, refused>>
    /\ \/ /\ model_id \notin DOMAIN models
          /\ mret' = Ret("unload", model_id, FALSE, "not_called")
          /\ UNCHANGED <<current_vram_usage, models>>
       \/ /\ model_id \in DOMAIN models
          /\ ~ IsLoaded(models, model_id)
          /\ mret' = Ret("unload", model_id, TRUE, "not_called")
          /\ UNCHANGED <<current_vram_usage, models>>
       \/ /\ model_id \in DOMAIN models
          /\ IsLoaded(models, model_id)
          /\ models' = Unloaded(models, model_id)
          /\ current_vram_usage' =
                Release(current_vram_usage, models[model_id].memory_usage)
          /\ mret' = Ret("unload", model_id, cleanup = "returns",
                         IF cleanup = "returns" THEN "cleaned"
                         ELSE "cleanup_raised")

\* ------------------------------------------------------------------------
\* ModelManager.register_model, unload_all and ensure_loaded
\* ------------------------------------------------------------------------
\* an id that is not in DEFAULT_MODELS
CustomId == "custom-model"

\* the ids register_model is called with: a new one, and one of the catalog
RegisterIds == {CustomId, "whisper-small"}

\* the ids the other calls are made with: two catalog entries that do not
\* fit the tight budget together, the custom id and an unknown id
ManagerIds == {"whisper-medium", "whisper-small", CustomId, UnknownId}

\* lines 172-177: self.models[model_id] = ModelInfo(...), a fresh record
RegisterModel(model_id) ==
    /\ models' = [m \in DOMAIN models \cup {model_id} |->
                    IF m = model_id THEN ModelInfo ELSE models[m]]
    /\ mret' = Ret("register", model_id, TRUE, "not_called")
    /\ UNCHANGED <<max_vram, current_vram_usage, refused, thVars, srvVars>>

\* lines 372-374: the records and the counter after unload_model has been
\* called for every loaded id of ids
RECURSIVE UnloadSweep(_, _, _)
UnloadSweep(ms, usage, ids) ==
    IF ids = {} THEN [models |-> ms, usage |-> usage]
    ELSE LET i == CHOOSE x \in ids : TRUE
         IN  IF IsLoaded(ms, i)
             THEN UnloadSweep(Unloaded(ms, i),
                              Release(usage, ms[i].memory_usage), ids \ {i})
             ELSE UnloadSweep(ms, usage, ids \ {i})

\* unload_all; unload_model catches what the cleanup raises (366-368), so
\* the loop goes through all of list(self.models.keys())
UnloadAll(cleanup) ==
    /\ models' = UnloadSweep(models, current_vram_usage, DOMAIN models).models
    /\ current_vram_usage' =
          UnloadSweep(models, current_vram_usage, DOMAIN models).usage
    /\ mret' = Ret("unload_all", "", TRUE,
                   IF cleanup = "returns" THEN "cleaned" ELSE "cleanup_raised")
    /\ UNCHANGED <<max_vram, refused, thVars, srvVars>>

\* what ensure_loaded did: result is FALSE if it raised, and handle is the
\* instance it returned
RetHandle(model_id, result, loader, handle) ==
    [op |-> "ensure", id |-> model_id, result |-> result, loader |-> loader,
     handle |-> IF result THEN handle ELSE NoInstance]

\* the result of load_model is not looked at
RaisesOnFailure_Ignored(load_ok) == FALSE

\* lines 418-419: if not self.load_model(...): raise RuntimeError
RaisesOnFailure(load_ok) == ~ load_ok

\* ensure_loaded, with the load_model call it makes for an unloaded model
EnsureLoaded(model_id, outcome) ==
    /\ UNCHANGED <<max_vram, thVars, srvVars>>
    /\ \/ /\ model_id \notin DOMAIN models
          /\ mret' = RetHandle(model_id, FALSE, "not_called", NoInstance)
          /\ UNCHANGED <<current_vram_usage, models, refused>>
       \/ /\ model_id \in DOMAIN models
          /\ IsLoaded(models, model_id)
          /\ mret' = RetHandle(model_id, TRUE, "not_called",
                               models[model_id].instance)
          /\ UNCHANGED <<current_vram_usage, models, refused>>
       \/ /\ model_id \in DOMAIN models
          /\ ~ IsLoaded(models, model_id)
          /\ ~ _check_vram_budget(model_id, current_vram_usage, max_vram)
          /\ mret' = RetHandle(model_id, ~ RaisesOnFailure(FALSE), "not_called",
                               models[model_id].instance)
          /\ refused' = refused \cup {model_id}
          /\ UNCHANGED <<current_vram_usage, models>>
       \/ /\ model_id \in DOMAIN models
          /\ ~ IsLoaded(models, model_id)
          /\ _check_vram_budget(model_id, current_vram_usage, max_vram)
          /\ LoaderRaises(model_id, outcome)
          /\ models' = LoadFailed(models, model_id)
          /\ mret' = RetHandle(model_id, ~ RaisesOnFailure(FALSE), "raised",
                               models'[model_id].instance)
          /\ UNCHANGED <<current_vram_usage, refused>>
       \/ /\ model_id \in DOMAIN models
          /\ ~ IsLoaded(models, model_id)
          /\ _check_vram_budget(model_id, current_vram_usage, max_vram)
          /\ ~ LoaderRaises(model_id, outcome)
          /\ models' = Loaded(models, model_id)
          /\ current_vram_usage' = Charge(current_vram_usage, model_id)
          /\ mret' = RetHandle(model_id, ~ RaisesOnFailure(TRUE), "returned",
                               models'[model_id].instance)
          /\ UNCHANGED refused

\* ------------------------------------------------------------------------
\* load_model with its options argument: the dict objects of lines 244-254
\* ------------------------------------------------------------------------
\* dict.update: the keys of other replace or extend those of d
dict_update(d, other) ==
    { p \in d : \A q \in other : q[1] # p[1] } \cup other

\* the content of the dict object a reference names
Deref(ref) == IF ref.shared THEN configs[ref.of] ELSE ref.dict

\* lines 244-246: config.get("config", {}) is the dict object of the
\* catalog entry if it has one, and a new empty dict otherwise
model_config(model_id) ==
    IF model_id \in ConfiguredIds THEN CatalogDict(model_id) ELSE OwnDict({})

\* lines 248-249: model_config.update(options) writes into the object that
\* model_config names
UpdatedCatalog(cfgs, ref, options) ==
    IF ref.shared /\ options # NoOptions
    THEN [cfgs EXCEPT ![ref.of] = dict_update(cfgs[ref.of], options)]
    ELSE cfgs

UpdatedRef(ref, options) ==
    IF ref.shared \/ options = NoOptions THEN ref
    ELSE OwnDict(dict_update(ref.dict, options))

\* the ids the calls with options are made with: one whose catalog entry
\* has a "config" key and one whose entry has none
OptionIds == { "whisper-small", "nsfw-classifier" }

\* load_model(model_id, options), called by one thread at a time
LoadModelOptions(model_id, options, outcome) ==
    /\ opt_arg' = options
    /\ UNCHANGED <<max_vram, thVars, handlers, max_workers, jobVars, dispVars,
                   lock, events, hcalls, runVars, regyVars, cacheVars, listed,
                   priorities, job_registry, whandler, stdout>>
    /\ \/ /\ model_id \notin DOMAIN models
          /\ mret' = Ret("load", model_id, FALSE, "not_called")
          /\ UNCHANGED <<current_vram_usage, models, refused, configs, load_options>>
       \/ /\ model_id \in DOMAIN models
          /\ IsLoaded(models, model_id)
          /\ mret' = Ret("load", model_id, TRUE, "not_called")
          /\ UNCHANGED <<current_vram_usage, models, refused, configs, load_options>>
       \/ /\ model_id \in DOMAIN models
          /\ ~ IsLoaded(models, model_id)
          /\ ~ _check_vram_budget(model_id, current_vram_usage, max_vram)
          /\ mret' = Ret("load", model_id, FALSE, "not_called")
          /\ refused' = refused \cup {model_id}
          /\ UNCHANGED <<current_vram_usage, models, configs, load_options>>
       \/ /\ model_id \in DOMAIN models
          /\ ~ IsLoaded(models, model_id)
          /\ _check_vram_budget(model_id, current_vram_usage, max_vram)
          /\ configs' = UpdatedCatalog(configs, model_config(model_id), options)
          /\ IF LoaderRaises(model_id, outcome)
             THEN /\ models' = LoadFailed(models, model_id)
                  /\ mret' = Ret("load", model_id, FALSE, "raised")
                  /\ UNCHANGED <<current_vram_usage, load_options>>
             ELSE /\ models' = Loaded(models, model_id)
                  /\ load_options' =
                        [load_options EXCEPT ![model_id] =
                            UpdatedRef(model_config(model_id), options)]
                  /\ current_vram_usage' = Charge(current_vram_usage, model_id)
                  /\ mret' = Ret("load", model_id, TRUE, "returned")
          /\ UNCHANGED refused

\* ------------------------------------------------------------------------
\* Cache: constants and records
\* ------------------------------------------------------------------------
\* the clock of the model counts half milliseconds, so that
\* time.time() * 1000 has a fractional part
TicksPerMs == 2

\* one second of that clock
SecondTicks == 1000 * TicksPerMs

CacheKeys == {"a", "b"}

CacheValues == {"v1", "v2"}

\* the ttl arguments of set, in seconds; 0 means no expiry (line 91)
TtlChoices == {0, 1}

\* no file for the key; expiresAt 0 stands for None (lines 67, 91 and 169
\* test its truth value)
NoEntry == [exists |-> FALSE, value |-> "None", expiresAt |-> 0]

\* a call of the cache, the time.time() it ran at and what it returned
CacheRet(op, key, at, value) == [op |-> op, key |-> key, at |-> at, value |-> value]

\* ------------------------------------------------------------------------
\* EngineServer: the job table, the worker pool and the dispatcher
\* ------------------------------------------------------------------------
\* job types with a handler registered at startup, and one without
RegisteredTypes == {"ocr.extract", "whisper.transcribe"}

UnregisteredType == "no.such.job"

\* the types jobs.start is called with
JobTypes == {"ocr.extract", UnregisteredType}

\* the registry the server is constructed with: a handler for each of the
\* registered types
StartupRegistry ==
    << <<"ocr.extract", "extract_text">>, <<"whisper.transcribe", "transcribe">> >>

\* _handle_jobs_start: priority: str = "normal"
DefaultPriority == "normal"

\* the priority arguments jobs.start is called with
Priorities == {"low", DefaultPriority, "high"}

\* EngineServer.__init__: max_workers: int = 4
DefaultWorkers == 4

\* the pool sizes the server is constructed with
PoolSizes == {1, 2}

\* a jobId that names no job
UnknownJob == 0

None == "None"

Terminal == {"done", "failed", "cancelled"}

\* the (percent, message) arguments handlers pass to on_progress
ProgressCalls == { <<50, "half">>, <<100, "">> }

\* dataclass Job, as built by Job(id=job_id, type=type)
Job(type) ==
    [type |-> type, state |-> "pending", progress |-> 0, message |-> "",
     result |-> None, error |-> None,
     started_at |-> None, completed_at |-> None]

NoStatus == [state |-> None, progress |-> 0, message |-> None,
             startedAt |-> None, completedAt |-> None]

\* a response of the dispatcher: the method and jobId it answers, whether it
\* is a result or an error object, the success flag and reason (or the error
\* message) it carries, and the body of a jobs.status result
Response(method, jobId, kind, success, reason, status) ==
    [method |-> method, jobId |-> jobId, kind |-> kind, success |-> success,
     reason |-> reason, status |-> status]

JobIds == 1 .. Len(jobs)

\* the threads that take EngineServer.lock: the dispatcher (the thread of
\* run()) and the pool thread executing the work item of job j
Dispatcher == <<"dispatcher", 0>>

PoolThread(j) == <<"worker", j>>

\* self.lock = threading.Lock(): created unlocked
NoHolder == <<"free", 0>>

\* the worker thread that took the job's work item is still inside it
Active(j) == wpc[j] \notin {"queued", "dropped", "exit"}

\* a handler that is running takes the whole pool
Busy_HandlerTakesPool ==
    IF \E j \in JobIds : wpc[j] = "handler"
    THEN max_workers
    ELSE Cardinality({j \in JobIds : Active(j)})

Busy == Cardinality({j \in JobIds : Active(j)})

\* the pool starts a thread for every work item
WorkerFree_Always(busy, size) == TRUE

\* ThreadPoolExecutor(max_workers=max_workers) runs at most max_workers
\* work items at a time
WorkerFree(busy, size) == busy < size

\* the pool takes the queued item of the highest priority first
PriorityRank(priority) ==
    CASE priority = "high" -> 2 [] priority = "low" -> 0 [] OTHER -> 1

QueueHead_ByPriority(j) ==
    /\ wpc[j] = "queued"
    /\ \A k \in DOMAIN wpc :
          wpc[k] = "queued" =>
             \/ PriorityRank(priorities[k]) < PriorityRank(priorities[j])
             \/ PriorityRank(priorities[k]) = PriorityRank(priorities[j]) /\ j <= k

\* the work queue of the pool is FIFO: its head is the oldest queued item
QueueHead(j) == wpc[j] = "queued" /\ \A k \in 1 .. (j - 1) : wpc[k] # "queued"

SrvInit(sizes) ==
    /\ handlers = RegisteredTypes
    /\ max_workers \in sizes
    /\ jobs = << >>
    /\ futures = << >>
    /\ wpc = << >>
    /\ wexc = << >>
    /\ dpc = "idle"
    /\ darg = UnknownJob
    /\ dtmp = NoStatus
    /\ resp = Response("none", UnknownJob, "none", FALSE, "", NoStatus)
    /\ lock = NoHolder
    /\ events = << >>
    /\ hcalls = [j \in 1 .. MaxJobs |-> << >>]
    /\ rpc = "read"
    /\ line = [shape |-> "blank", id |-> None]
    /\ replies = << >>
    /\ nlines = 0
    /\ _handlers = << >>
    /\ rlog = << >>
    /\ rret = None
    /\ files = [k \in CacheKeys |-> NoEntry]
    /\ now = 0
    /\ nticks = 0
    /\ lastset = [k \in CacheKeys |-> [done |-> FALSE, value |-> None,
                                       at |-> 0, ttl |-> 0]]
    /\ cret = CacheRet("none", None, 0, None)
    /\ listed = << >>
    /\ configs = [m \in ConfiguredIds |-> CatalogConfig(m)]
    /\ load_options = [m \in DEFAULT_MODELS |-> OwnDict({})]
    /\ opt_arg = NoOptions
    /\ priorities = [j \in 1 .. MaxJobs |-> DefaultPriority]
    /\ job_registry = StartupRegistry
    /\ whandler = [j \in 1 .. MaxJobs |-> None]
    /\ stdout = << >>

\* a run that exercises the manager: the budget varies, the pool is the default
Init == MMInit(MaxVramChoices) /\ SrvInit({DefaultWorkers})

\* a run that exercises the server: the pool size varies, the budget is the default
JobInit == MMInit({MAX_GPU_VRAM_BYTES}) /\ SrvInit(PoolSizes)

\* the server as main() builds it, with the default pool
ProgressInit == MMInit({MAX_GPU_VRAM_BYTES}) /\ SrvInit({DefaultWorkers})

\* every type passes for registered
has_handler_Any(registry, job_type) == TRUE

\* JobRegistry.has_handler
has_handler(registry, job_type) == job_type \in registry

\* ------------------------------------------------------------------------
\* JobRegistry: register, unregister and the lookups
\* ------------------------------------------------------------------------
\* the handler functions given to register
HandlerFns == {"extract_text", "transcribe"}

\* line 75: list(self._handlers.keys())
list_job_types(d) == [i \in DOMAIN d |-> d[i][1]]

\* a type that is present keeps the handler it has
register_KeepsFirst(d, job_type, handler) ==
    IF \E i \in DOMAIN d : d[i][1] = job_type THEN d
    ELSE Append(d, <<job_type, handler>>)

\* line 42: self._handlers[job_type] = handler (a present key keeps its
\* place, a new key goes last)
register(d, job_type, handler) ==
    IF \E i \in DOMAIN d : d[i][1] = job_type
    THEN [i \in DOMAIN d |->
            IF d[i][1] = job_type THEN <<job_type, handler>> ELSE d[i]]
    ELSE Append(d, <<job_type, handler>>)

\* line 53: del self._handlers[job_type]
unregister(d, job_type) == SelectSeq(d, LAMBDA p : p[1] # job_type)

\* the lookup answers from the registry as it was at startup
get_handler_Startup(d, job_type) ==
    StartupRegistry[CHOOSE i \in DOMAIN StartupRegistry :
                       StartupRegistry[i][1] = job_type][2]

\* lines 69-71
get_handler(d, job_type) ==
    IF \A i \in DOMAIN d : d[i][1] # job_type THEN "KeyError"
    ELSE d[CHOOSE i \in DOMAIN d : d[i][1] = job_type][2]

Register(job_type, handler) ==
    /\ Len(rlog) < MaxOps
    /\ _handlers' = register(_handlers, job_type, handler)
    /\ rlog' = Append(rlog, <<"register", job_type, handler>>)
    /\ rret' = None
    /\ UNCHANGED <<mmVars, seqVars, thVars, handlers, max_workers, jobVars,
                   dispVars, lock, events, hcalls, runVars, cacheVars, listed,
                   moreVars>>

\* lines 52-56
Unregister(job_type) ==
    /\ Len(rlog) < MaxOps
    /\ IF \E i \in DOMAIN _handlers : _handlers[i][1] = job_type
       THEN _handlers' = unregister(_handlers, job_type) /\ rret' = TRUE
       ELSE _handlers' = _handlers /\ rret' = FALSE
    /\ rlog' = Append(rlog, <<"unregister", job_type, None>>)
    /\ UNCHANGED <<mmVars, seqVars, thVars, handlers, max_workers, jobVars,
                   dispVars, lock, events, hcalls, runVars, cacheVars, listed,
                   moreVars>>

RegistryNext ==
    \/ \E t \in RegisteredTypes, h \in HandlerFns : Register(t, h)
    \/ \E t \in RegisteredTypes : Unregister(t)

RegistrySpec == Init /\ [][RegistryNext]_vars

\* ------------------------------------------------------------------------
\* Cache: set, get, prune and the passing of time
\* ------------------------------------------------------------------------
\* line 92: int((time.time() + effective_ttl) * 1000), in milliseconds
ExpiresAt(t, ttl) == (t + ttl * SecondTicks) \div TicksPerMs

\* an entry also counts as expired at its expiry instant
IsExpired_AtInstant(entry, t) ==
    entry.expiresAt # 0 /\ t >= entry.expiresAt * TicksPerMs

\* lines 67 and 169: expires_at and time.time() * 1000 > expires_at
IsExpired(entry, t) ==
    entry.expiresAt # 0 /\ t > entry.expiresAt * TicksPerMs

\* Cache.set with a JSON-serialisable value; default_ttl is None
CacheSet(key, value, ttl) ==
    /\ files' = [files EXCEPT ![key] =
                   [exists |-> TRUE, value |-> value,
                    expiresAt |-> IF ttl # 0 THEN ExpiresAt(now, ttl) ELSE 0]]
    /\ lastset' = [lastset EXCEPT ![key] =
                     [done |-> TRUE, value |-> value, at |-> now, ttl |-> ttl]]
    /\ cret' = CacheRet("set", key, now, None)
    /\ UNCHANGED <<now, nticks, regyVars, mmVars, seqVars, thVars, handlers,
                   max_workers, jobVars, dispVars, lock, events, hcalls, runVars,
                   listed, moreVars>>

\* Cache.get
CacheGet(key) ==
    /\ IF ~ files[key].exists
       THEN cret' = CacheRet("get", key, now, None) /\ UNCHANGED files
       ELSE IF IsExpired(files[key], now)
       THEN /\ files' = [files EXCEPT ![key] = NoEntry]
            /\ cret' = CacheRet("get", key, now, None)
       ELSE /\ cret' = CacheRet("get", key, now, files[key].value)
            /\ UNCHANGED files
    /\ UNCHANGED <<now, nticks, lastset, regyVars, mmVars, seqVars, thVars,
                   handlers, max_workers, jobVars, dispVars, lock, events,
                   hcalls, runVars, listed, moreVars>>

\* Cache.prune
CachePrune ==
    /\ files' = [k \in CacheKeys |->
                   IF files[k].exists /\ IsExpired(files[k], now)
                   THEN NoEntry ELSE files[k]]
    /\ cret' = CacheRet("prune", None, now, None)
    /\ UNCHANGED <<now, nticks, lastset, regyVars, mmVars, seqVars, thVars,
                   handlers, max_workers, jobVars, dispVars, lock, events,
                   hcalls, runVars, listed, moreVars>>

\* time passes between two calls: half a millisecond, or the rest of a second
Tick(d) ==
    /\ nticks < MaxTicks
    /\ now' = now + d
    /\ nticks' = nticks + 1
    /\ UNCHANGED <<files, lastset, cret, regyVars, mmVars, seqVars, thVars,
                   handlers, max_workers, jobVars, dispVars, lock, events,
                   hcalls, runVars, listed, moreVars>>

CacheNext ==
    \/ \E k \in CacheKeys, v \in CacheValues, ttl \in TtlChoices : CacheSet(k, v, ttl)
    \/ \E k \in CacheKeys : CacheGet(k)
    \/ CachePrune
    \/ \E d \in {1, SecondTicks - 1} : Tick(d)

CacheSpec == ProgressInit /\ [][CacheNext]_vars

\* ---- dispatcher: jobs.start (_handle_jobs_start) -------------------------
JobsStart(type) ==
    /\ dpc = "idle"
    /\ \/ /\ ~ has_handler(handlers, type)
          /\ resp' = Response("jobs.start", UnknownJob, "error", FALSE,
                              "Unknown job type", NoStatus)
          /\ UNCHANGED jobVars
       \/ /\ has_handler(handlers, type)
          /\ Len(jobs) < MaxJobs
          /\ jobs' = Append(jobs, Job(type))
          /\ futures' = Append(futures, "PENDING")
          /\ wpc' = Append(wpc, "queued")
          /\ wexc' = Append(wexc, None)
          /\ resp' = Response("jobs.start", Len(jobs) + 1, "result", TRUE,
                              "", NoStatus)
    /\ UNCHANGED <<regVars, dpc, darg, dtmp, mmVars, seqVars, thVars>>

\* jobs.start with an explicit priority argument: the body of
\* _handle_jobs_start never reads it
JobsStartPriority(type, priority) ==
    /\ dpc = "idle"
    /\ \/ /\ ~ has_handler(handlers, type)
          /\ resp' = Response("jobs.start", UnknownJob, "error", FALSE,
                              "Unknown job type", NoStatus)
          /\ UNCHANGED <<jobVars, priorities>>
       \/ /\ has_handler(handlers, type)
          /\ Len(jobs) < MaxJobs
          /\ jobs' = Append(jobs, Job(type))
          /\ futures' = Append(futures, "PENDING")
          /\ wpc' = Append(wpc, "queued")
          /\ wexc' = Append(wexc, None)
          /\ priorities' = [priorities EXCEPT ![Len(jobs) + 1] = priority]
          /\ resp' = Response("jobs.start", Len(jobs) + 1, "result", TRUE,
                              "", NoStatus)
    /\ UNCHANGED <<handlers, max_workers, lock, events, hcalls, runVars,
                   regyVars, cacheVars, listed, optVars, job_registry, whandler,
                   stdout, dpc, darg, dtmp, mmVars, seqVars, thVars>>

\* ---- pool worker: the work item of job j ---------------------------------
\* a free worker takes the head of the queue; a cancelled future is dropped
\* without running (Future.set_running_or_notify_cancel)
Dequeue(j) ==
    /\ j \in JobIds
    /\ QueueHead(j)
    /\ WorkerFree(Busy, max_workers)
    /\ IF futures[j] = "CANCELLED"
       THEN /\ wpc' = [wpc EXCEPT ![j] = "dropped"]
            /\ UNCHANGED futures
       ELSE /\ wpc' = [wpc EXCEPT ![j] = "start"]
            /\ futures' = [futures EXCEPT ![j] = "RUNNING"]
    /\ UNCHANGED <<jobs, wexc, regVars, dispVars, mmVars, seqVars, thVars>>

\* _run_job lines 214-219
MarkRunning(js, j) ==
    [js EXCEPT ![j].state = "running", ![j].started_at = "t_started"]

RunJobStart(j) ==
    /\ j \in JobIds
    /\ wpc[j] = "start"
    /\ jobs' = MarkRunning(jobs, j)
    /\ wpc' = [wpc EXCEPT ![j] = "handler"]
    /\ UNCHANGED <<futures, wexc, regVars, dispVars, mmVars, seqVars, thVars>>

\* _run_job line 237: get_handler raises KeyError for an unregistered type
HandlerMissing(j) ==
    /\ j \in JobIds
    /\ wpc[j] = "handler"
    /\ jobs[j].type \notin handlers
    /\ wexc' = [wexc EXCEPT ![j] = "No handler registered"]
    /\ wpc' = [wpc EXCEPT ![j] = "raised"]
    /\ UNCHANGED <<jobs, futures, regVars, dispVars, mmVars, seqVars, thVars>>

\* on_progress, lines 222-233, called by the running handler
OnProgress(j, call) ==
    /\ j \in JobIds
    /\ wpc[j] = "handler"
    /\ jobs[j].type \in handlers
    /\ jobs' = [jobs EXCEPT ![j].progress = call[1], ![j].message = call[2]]
    /\ UNCHANGED <<futures, wpc, wexc, regVars, dispVars, mmVars, seqVars, thVars>>

\* line 238: the handler returns its result
HandlerReturns(j) ==
    /\ j \in JobIds
    /\ wpc[j] = "handler"
    /\ jobs[j].type \in handlers
    /\ wexc' = [wexc EXCEPT ![j] = "result"]
    /\ wpc' = [wpc EXCEPT ![j] = "returned"]
    /\ UNCHANGED <<jobs, futures, regVars, dispVars, mmVars, seqVars, thVars>>

\* line 238: the handler raises
HandlerRaises(j) ==
    /\ j \in JobIds
    /\ wpc[j] = "handler"
    /\ jobs[j].type \in handlers
    /\ wexc' = [wexc EXCEPT ![j] = "handler error"]
    /\ wpc' = [wpc EXCEPT ![j] = "raised"]
    /\ UNCHANGED <<jobs, futures, regVars, dispVars, mmVars, seqVars, thVars>>

\* the state assignment is missing from the success block
MarkDone_StateForgotten(js, j, result) ==
    [js EXCEPT ![j].result = result, ![j].completed_at = "t_done"]

\* lines 241-245
MarkDone(js, j, result) ==
    [js EXCEPT ![j].state = "done", ![j].result = result,
               ![j].completed_at = "t_done"]

RunJobSuccess(j) ==
    /\ j \in JobIds
    /\ wpc[j] = "returned"
    /\ jobs' = MarkDone(jobs, j, wexc[j])
    /\ wpc' = [wpc EXCEPT ![j] = "emit_result"]
    /\ UNCHANGED <<futures, wexc, regVars, dispVars, mmVars, seqVars, thVars>>

\* lines 247-254: the result event is serialised and written; json.dumps or
\* the write can raise, and the exception lands in the except clause
EmitResult(j, sent) ==
    /\ j \in JobIds
    /\ wpc[j] = "emit_result"
    /\ IF sent
       THEN /\ wpc' = [wpc EXCEPT ![j] = "exit"]
            /\ futures' = [futures EXCEPT ![j] = "FINISHED"]
            /\ UNCHANGED wexc
       ELSE /\ wpc' = [wpc EXCEPT ![j] = "raised"]
            /\ wexc' = [wexc EXCEPT ![j] = "emit error"]
            /\ UNCHANGED futures
    /\ UNCHANGED <<jobs, regVars, dispVars, mmVars, seqVars, thVars>>

\* the error description is not stored
MarkFailed_ErrorDropped(js, j, error_msg) ==
    [js EXCEPT ![j].state = "failed", ![j].completed_at = "t_failed"]

\* lines 256-265
MarkFailed(js, j, error_msg) ==
    [js EXCEPT ![j].state = "failed", ![j].error = error_msg,
               ![j].completed_at = "t_failed"]

RunJobFailure(j) ==
    /\ j \in JobIds
    /\ wpc[j] = "raised"
    /\ jobs' = MarkFailed(jobs, j, wexc[j])
    /\ wpc' = [wpc EXCEPT ![j] = "emit_error"]
    /\ UNCHANGED <<futures, wexc, regVars, dispVars, mmVars, seqVars, thVars>>

\* lines 267-272: the error event is written (or the write raises into the
\* future); either way the work item is over
EmitError(j) ==
    /\ j \in JobIds
    /\ wpc[j] = "emit_error"
    /\ wpc' = [wpc EXCEPT ![j] = "exit"]
    /\ futures' = [futures EXCEPT ![j] = "FINISHED"]
    /\ UNCHANGED <<jobs, wexc, regVars, dispVars, mmVars, seqVars, thVars>>

\* ---- dispatcher: jobs.cancel (_handle_jobs_cancel) -----------------------
\* "cancelled" is missing from the tuple of finished states
AlreadyFinished_NotCancelled(state) == state \in {"done", "failed"}

\* line 319: job.state in ("done", "failed", "cancelled")
AlreadyFinished(state) == state \in {"done", "failed", "cancelled"}

\* lines 312-320: the lookup and the test of job.state
CancelCheck(j) ==
    /\ dpc = "idle"
    /\ IF j \notin JobIds
       THEN /\ resp' = Response("jobs.cancel", j, "error", FALSE,
                                "Job not found", NoStatus)
            /\ UNCHANGED <<dpc, darg>>
       ELSE IF AlreadyFinished(jobs[j].state)
       THEN /\ resp' = Response("jobs.cancel", j, "result", FALSE,
                                jobs[j].state, NoStatus)
            /\ UNCHANGED <<dpc, darg>>
       ELSE /\ dpc' = "cancel_try"
            /\ darg' = j
            /\ UNCHANGED resp
    /\ UNCHANGED <<dtmp, jobVars, regVars, mmVars, seqVars, thVars>>

\* every future can be cancelled
FutureCancel_Always(f) == TRUE

\* Future.cancel(): False for a running or finished future, True otherwise
FutureCancel(f) == f \notin {"RUNNING", "FINISHED"}

\* line 323: future.cancel()
CancelTry ==
    /\ dpc = "cancel_try"
    /\ IF FutureCancel(futures[darg])
       THEN /\ futures' = [futures EXCEPT ![darg] = "CANCELLED"]
            /\ dpc' = "cancel_commit"
            /\ UNCHANGED <<darg, resp>>
       ELSE /\ resp' = Response("jobs.cancel", darg, "result", FALSE,
                                "Job is already running", NoStatus)
            /\ dpc' = "idle"
            /\ darg' = UnknownJob
            /\ UNCHANGED futures
    /\ UNCHANGED <<dtmp, jobs, wpc, wexc, regVars, mmVars, seqVars, thVars>>

\* the completion time is not recorded
MarkCancelled_NoTimestamp(js, j) == [js EXCEPT ![j].state = "cancelled"]

\* lines 324-326
MarkCancelled(js, j) ==
    [js EXCEPT ![j].state = "cancelled", ![j].completed_at = "t_cancelled"]

\* lines 324-328
CancelCommit ==
    /\ dpc = "cancel_commit"
    /\ jobs' = MarkCancelled(jobs, darg)
    /\ resp' = Response("jobs.cancel", darg, "result", TRUE, "", NoStatus)
    /\ dpc' = "idle"
    /\ darg' = UnknownJob
    /\ UNCHANGED <<dtmp, futures, wpc, wexc, regVars, mmVars, seqVars, thVars>>

\* ---- dispatcher: jobs.status (_handle_jobs_status) -----------------------
\* lines 286-287: the message is put in the result only if it is non-empty
StatusMessage(message) == IF message = "" THEN None ELSE message

\* lines 282-287: state, progress and message as the result carries them
StatusFields(job) ==
    [NoStatus EXCEPT !.state = job.state,
                     !.progress = job.progress,
                     !.message = StatusMessage(job.message)]

\* lines 276-287: the lookup, then state, progress and message are read
StatusBegin(j) ==
    /\ dpc = "idle"
    /\ IF j \notin JobIds
       THEN /\ resp' = Response("jobs.status", j, "error", FALSE,
                                "Job not found", NoStatus)
            /\ UNCHANGED <<dpc, darg, dtmp>>
       ELSE /\ dtmp' = StatusFields(jobs[j])
            /\ dpc' = "status_times"
            /\ darg' = j
            /\ UNCHANGED resp
    /\ UNCHANGED <<jobVars, regVars, mmVars, seqVars, thVars>>

\* lines 288-293: the two timestamps are read and the response is returned
StatusEnd ==
    /\ dpc = "status_times"
    /\ resp' = Response("jobs.status", darg, "result", TRUE, "",
                        [dtmp EXCEPT !.startedAt = jobs[darg].started_at,
                                     !.completedAt = jobs[darg].completed_at])
    /\ dpc' = "idle"
    /\ darg' = UnknownJob
    /\ dtmp' = NoStatus
    /\ UNCHANGED <<jobVars, regVars, mmVars, seqVars, thVars>>

\* the entry of jobs.list for job j (lines 337-342)
ListEntry(js, j) ==
    [jobId |-> j, type |-> js[j].type, state |-> js[j].state,
     progress |-> js[j].progress]

\* every second job is left out
ListJobs_EverySecond(js) ==
    [i \in 1 .. (Len(js) \div 2) |-> ListEntry(js, 2 * i)]

\* lines 336-344: one entry for each of self.jobs.values()
ListJobs(js) == [j \in 1 .. Len(js) |-> ListEntry(js, j)]

\* _handle_jobs_list, inside the lock
JobsList ==
    /\ dpc = "idle"
    /\ listed' = ListJobs(jobs)
    /\ resp' = Response("jobs.list", UnknownJob, "result", TRUE, "", NoStatus)
    /\ UNCHANGED <<dpc, darg, dtmp, jobVars, handlers, max_workers, lock,
                   events, hcalls, runVars, regyVars, cacheVars, moreVars, mmVars,
                   seqVars, thVars>>

Progress(j) == \E call \in ProgressCalls : OnProgress(j, call)

Worker(j) ==
    \/ Dequeue(j)
    \/ RunJobStart(j)
    \/ HandlerReturns(j)
    \/ HandlerRaises(j)
    \/ RunJobSuccess(j)
    \/ \E sent \in BOOLEAN : EmitResult(j, sent)
    \/ RunJobFailure(j)
    \/ EmitError(j)

Start == \E type \in JobTypes : JobsStart(type)

Cancel ==
    \/ \E j \in 0 .. MaxJobs : CancelCheck(j)
    \/ CancelTry
    \/ CancelCommit

Status ==
    \/ \E j \in 0 .. MaxJobs : StatusBegin(j)
    \/ StatusEnd

\* the server with every request and every worker step of the model
JobNext ==
    \/ Start
    \/ Cancel
    \/ Status
    \/ \E j \in 1 .. MaxJobs : Worker(j) \/ Progress(j)

JobSpec == JobInit /\ [][JobNext]_vars

\* the server serving jobs.start and jobs.cancel, with handlers that report
\* no progress
CancelNext ==
    \/ Start
    \/ Cancel
    \/ \E j \in 1 .. MaxJobs : Worker(j)

CancelSpec == JobInit /\ [][CancelNext]_vars

\* a server with a pool of one worker serving jobs.start, jobs.status and
\* jobs.list while the worker runs the jobs
ListNext ==
    \/ Start
    \/ Status
    \/ JobsList
    \/ \E j \in 1 .. MaxJobs : Worker(j)

ListInit == MMInit({MAX_GPU_VRAM_BYTES}) /\ SrvInit({1})

ListSpec == ListInit /\ [][ListNext]_vars

\* ------------------------------------------------------------------------
\* The registry changes while the server runs: register and unregister are
\* called on the JobRegistry the server was given
\* ------------------------------------------------------------------------
\* the keys of the registry, which has_handler tests
RegistryTypes(d) == { d[i][1] : i \in DOMAIN d }

\* job_registry.register(job_type, handler)
ServerRegister(job_type, handler) ==
    /\ job_registry' = register(job_registry, job_type, handler)
    /\ handlers' = RegistryTypes(job_registry')
    /\ UNCHANGED <<max_workers, lock, events, hcalls, runVars, regyVars,
                   cacheVars, listed, optVars, priorities, whandler, stdout,
                   jobVars, dispVars, mmVars, seqVars, thVars>>

\* job_registry.unregister(job_type)
ServerUnregister(job_type) ==
    /\ job_registry' = unregister(job_registry, job_type)
    /\ handlers' = RegistryTypes(job_registry')
    /\ UNCHANGED <<max_workers, lock, events, hcalls, runVars, regyVars,
                   cacheVars, listed, optVars, priorities, whandler, stdout,
                   jobVars, dispVars, mmVars, seqVars, thVars>>

\* _run_job line 237: handler = self.job_registry.get_handler(job_type);
\* the KeyError of an unregistered type lands in the except clause
GetHandler(j) ==
    /\ j \in JobIds
    /\ wpc[j] = "handler"
    /\ IF get_handler(job_registry, jobs[j].type) = "KeyError"
       THEN /\ wexc' = [wexc EXCEPT ![j] = "No handler registered"]
            /\ wpc' = [wpc EXCEPT ![j] = "raised"]
            /\ UNCHANGED whandler
       ELSE /\ whandler' = [whandler EXCEPT
                               ![j] = get_handler(job_registry, jobs[j].type)]
            /\ wpc' = [wpc EXCEPT ![j] = "calling"]
            /\ UNCHANGED wexc
    /\ UNCHANGED <<jobs, futures, handlers, max_workers, lock, events, hcalls,
                   runVars, regyVars, cacheVars, listed, optVars, priorities,
                   job_registry, stdout, dispVars, mmVars, seqVars, thVars>>

\* line 238: the handler that was looked up returns its result, or raises
CallEnds(j, outcome) ==
    /\ j \in JobIds
    /\ wpc[j] = "calling"
    /\ IF outcome = "returns"
       THEN /\ wexc' = [wexc EXCEPT ![j] = "result"]
            /\ wpc' = [wpc EXCEPT ![j] = "returned"]
       ELSE /\ wexc' = [wexc EXCEPT ![j] = "handler error"]
            /\ wpc' = [wpc EXCEPT ![j] = "raised"]
    /\ UNCHANGED <<jobs, futures, regVars, dispVars, mmVars, seqVars, thVars>>

\* the work item of job j, with the lookup and the call as separate steps
RegistryWorker(j) ==
    \/ Dequeue(j)
    \/ RunJobStart(j)
    \/ GetHandler(j)
    \/ \E outcome \in Outcomes : CallEnds(j, outcome)
    \/ RunJobSuccess(j)
    \/ \E sent \in BOOLEAN : EmitResult(j, sent)
    \/ RunJobFailure(j)
    \/ EmitError(j)

\* the type whose handler is replaced and removed while jobs are submitted
ChangedType == "ocr.extract"

ChangingNext ==
    \/ Start
    \/ \E h \in HandlerFns : ServerRegister(ChangedType, h)
    \/ ServerUnregister(ChangedType)
    \/ \E j \in 1 .. MaxJobs : RegistryWorker(j)

\* a server with a pool of one worker whose registry changes while jobs
\* wait and run; the pool thread is eventually scheduled whenever it has a
\* step to take, and every handler that is called returns or raises
ChangingSpec ==
    /\ ListInit
    /\ [][ChangingNext]_vars
    /\ \A j \in 1 .. MaxJobs : WF_vars(RegistryWorker(j))

\* a server serving jobs.start requests of every priority while its pool
\* runs the jobs
PriorityNext ==
    \/ \E type \in JobTypes, priority \in Priorities :
          JobsStartPriority(type, priority)
    \/ \E j \in 1 .. MaxJobs : Worker(j)

PrioritySpec == JobInit /\ [][PriorityNext]_vars

\* the same, with every pool thread that has a step to take eventually
\* scheduled and every handler eventually returning or raising
FairCancelSpec ==
    /\ JobInit
    /\ [][CancelNext]_vars
    /\ \A j \in 1 .. MaxJobs : WF_vars(Worker(j))

\* ------------------------------------------------------------------------
\* Two jobs of different types, with EngineServer.lock explicit: a pool
\* thread holds the lock from the entry of a "with self.lock" block of
\* _run_job to its exit; the lock blocks of the dispatcher are single steps
\* that need the lock free.
\* ------------------------------------------------------------------------
\* _run_job is at one of its three "with self.lock" statements
AtLock(j) == j \in JobIds /\ wpc[j] \in {"start", "returned", "raised"}

\* lines 214, 241, 261: the pool thread acquires the lock
Acquire(j) ==
    /\ AtLock(j)
    /\ lock = NoHolder
    /\ lock' = PoolThread(j)
    /\ UNCHANGED <<events, hcalls, runVars, handlers, max_workers, jobVars, dispVars,
                   libVars, mmVars, seqVars, thVars>>

\* the lock stays with the pool thread when the block at 214-219 is left
LockAfterBlock_Kept(j) == PoolThread(j)

\* leaving a "with self.lock" block releases the lock
LockAfterBlock(j) == NoHolder

\* lines 215-219, inside the lock
LockedRunJobStart(j) ==
    /\ j \in JobIds
    /\ wpc[j] = "start"
    /\ lock = PoolThread(j)
    /\ jobs' = MarkRunning(jobs, j)
    /\ wpc' = [wpc EXCEPT ![j] = "handler"]
    /\ lock' = LockAfterBlock(j)
    /\ UNCHANGED <<events, hcalls, runVars, handlers, max_workers, futures, wexc,
                   dispVars, libVars, mmVars, seqVars, thVars>>

\* lines 242-245, inside the lock
LockedRunJobSuccess(j) ==
    /\ j \in JobIds
    /\ wpc[j] = "returned"
    /\ lock = PoolThread(j)
    /\ jobs' = MarkDone(jobs, j, wexc[j])
    /\ wpc' = [wpc EXCEPT ![j] = "emit_result"]
    /\ lock' = LockAfterBlock(j)
    /\ UNCHANGED <<events, hcalls, runVars, handlers, max_workers, futures, wexc,
                   dispVars, libVars, mmVars, seqVars, thVars>>

\* lines 262-265, inside the lock
LockedRunJobFailure(j) ==
    /\ j \in JobIds
    /\ wpc[j] = "raised"
    /\ lock = PoolThread(j)
    /\ jobs' = MarkFailed(jobs, j, wexc[j])
    /\ wpc' = [wpc EXCEPT ![j] = "emit_error"]
    /\ lock' = LockAfterBlock(j)
    /\ UNCHANGED <<events, hcalls, runVars, handlers, max_workers, futures, wexc,
                   dispVars, libVars, mmVars, seqVars, thVars>>

\* line 238: the handler of job j returns or raises
HandlerEnds(j) == HandlerReturns(j) \/ HandlerRaises(j)

\* the steps of _run_job around the handler call
PoolStep(j) ==
    \/ Dequeue(j)
    \/ Acquire(j)
    \/ LockedRunJobStart(j)
    \/ LockedRunJobSuccess(j)
    \/ \E sent \in BOOLEAN : EmitResult(j, sent)
    \/ LockedRunJobFailure(j)
    \/ EmitError(j)

\* jobs.start of a type no job has yet; its two lock blocks (201-202,
\* 206-207) need the lock
PairStart(type) ==
    /\ lock = NoHolder
    /\ \A k \in JobIds : jobs[k].type # type
    /\ JobsStart(type)

\* a jobs.status request has been read and _handle_jobs_status is entered
StatusRequest(j) ==
    /\ dpc = "idle"
    /\ dpc' = "status_lock"
    /\ darg' = j
    /\ UNCHANGED <<dtmp, resp, jobVars, regVars, mmVars, seqVars, thVars>>

\* lines 276-287: the lookup inside the lock, then the reads
StatusLookup ==
    /\ dpc = "status_lock"
    /\ lock = NoHolder
    /\ IF darg \notin JobIds
       THEN /\ resp' = Response("jobs.status", darg, "error", FALSE,
                                "Job not found", NoStatus)
            /\ dpc' = "idle"
            /\ darg' = UnknownJob
            /\ UNCHANGED dtmp
       ELSE /\ dtmp' = StatusFields(jobs[darg])
            /\ dpc' = "status_times"
            /\ UNCHANGED <<darg, resp>>
    /\ UNCHANGED <<jobVars, regVars, mmVars, seqVars, thVars>>

\* the dispatcher's steps inside a jobs.status request
StatusStep == StatusLookup \/ StatusEnd

PairNext ==
    \/ \E type \in RegisteredTypes : PairStart(type)
    \/ \E j \in JobIds \cup {UnknownJob} : StatusRequest(j)
    \/ StatusStep
    \/ \E j \in 1 .. MaxJobs : PoolStep(j) \/ HandlerEnds(j)

PairSpec == JobInit /\ [][PairNext]_vars

\* every thread that can take a step eventually takes one; handlers need
\* not terminate
FairPairSpec ==
    /\ JobInit
    /\ [][PairNext]_vars
    /\ WF_vars(StatusStep)
    /\ \A j \in 1 .. MaxJobs : WF_vars(PoolStep(j))

\* ------------------------------------------------------------------------
\* Handlers that never return: the call at line 238 of a job of one of
\* these types has no end, the pool thread stays inside it
\* ------------------------------------------------------------------------
HangingTypes == {"whisper.transcribe"}

\* the handler of job j was called and will never return
Hangs(j) == j \in JobIds /\ wpc[j] = "handler" /\ jobs[j].type \in HangingTypes

Stuck == Cardinality({j \in 1 .. MaxJobs : Hangs(j)})

\* line 238 for a handler that does return or raise
ReturningHandlerEnds(j) ==
    /\ j \in JobIds
    /\ jobs[j].type \notin HangingTypes
    /\ HandlerEnds(j)

\* jobs.start of a registered type; its lock blocks need the lock
LockedStart(type) ==
    /\ lock = NoHolder
    /\ JobsStart(type)

\* a jobs.list request has been read and _handle_jobs_list is entered
ListRequest ==
    /\ dpc = "idle"
    /\ dpc' = "list_lock"
    /\ UNCHANGED <<darg, dtmp, resp, jobVars, regVars, mmVars, seqVars, thVars>>

\* lines 335-344: the list is built inside the lock
ListLookup ==
    /\ dpc = "list_lock"
    /\ lock = NoHolder
    /\ listed' = ListJobs(jobs)
    /\ resp' = Response("jobs.list", UnknownJob, "result", TRUE, "", NoStatus)
    /\ dpc' = "idle"
    /\ UNCHANGED <<darg, dtmp, jobVars, handlers, max_workers, lock, events,
                   hcalls, runVars, regyVars, cacheVars, moreVars, mmVars,
                   seqVars, thVars>>

\* a jobs.cancel request has been read and _handle_jobs_cancel is entered
CancelRequest(j) ==
    /\ dpc = "idle"
    /\ dpc' = "cancel_lock"
    /\ darg' = j
    /\ UNCHANGED <<dtmp, resp, jobVars, regVars, mmVars, seqVars, thVars>>

\* lines 312-320: the lookup inside the lock, then the test of job.state
CancelLookup ==
    /\ dpc = "cancel_lock"
    /\ lock = NoHolder
    /\ IF darg \notin JobIds
       THEN /\ resp' = Response("jobs.cancel", darg, "error", FALSE,
                                "Job not found", NoStatus)
            /\ dpc' = "idle"
            /\ darg' = UnknownJob
       ELSE IF AlreadyFinished(jobs[darg].state)
       THEN /\ resp' = Response("jobs.cancel", darg, "result", FALSE,
                                jobs[darg].state, NoStatus)
            /\ dpc' = "idle"
            /\ darg' = UnknownJob
       ELSE /\ dpc' = "cancel_try"
            /\ UNCHANGED <<darg, resp>>
    /\ UNCHANGED <<dtmp, jobVars, regVars, mmVars, seqVars, thVars>>

\* lines 324-328: the lock block of a successful cancel needs the lock
LockedCancelCommit ==
    /\ lock = NoHolder
    /\ CancelCommit

\* the dispatcher's steps inside a request
DispatcherStep ==
    \/ StatusStep
    \/ ListLookup
    \/ CancelLookup
    \/ CancelTry
    \/ LockedCancelCommit

\* the requests the client sends while a handler hangs: jobs.status for a
\* job whose handler hangs, jobs.cancel for any job, jobs.list
RequestWhileStuck ==
    /\ Stuck > 0
    /\ \/ \E j \in JobIds : Hangs(j) /\ StatusRequest(j)
       \/ \E j \in JobIds : CancelRequest(j)
       \/ ListRequest

StuckNext ==
    \/ \E type \in RegisteredTypes : LockedStart(type)
    \/ RequestWhileStuck
    \/ DispatcherStep
    \/ \E j \in 1 .. MaxJobs : PoolStep(j) \/ ReturningHandlerEnds(j)

StuckSpec == JobInit /\ [][StuckNext]_vars

\* every thread that can take a step eventually takes one, and every
\* handler that is not of a hanging type eventually returns or raises
FairStuckSpec ==
    /\ JobInit
    /\ [][StuckNext]_vars
    /\ WF_vars(DispatcherStep)
    /\ \A j \in 1 .. MaxJobs :
          WF_vars(PoolStep(j)) /\ WF_vars(ReturningHandlerEnds(j))

\* ------------------------------------------------------------------------
\* Handlers that report progress: on_progress (lines 222-233) step by step
\* ------------------------------------------------------------------------
\* an on_progress call of a handler, and how it ended
ProgressCall(percent, message, ended) ==
    [percent |-> percent, message |-> message, ended |-> ended]

\* the event dict of lines 228-233 (the timestamp left out)
ProgressEvent(j, percent, message) ==
    [type |-> "progress", jobId |-> j, percent |-> percent, message |-> message]

LastCall(j) == hcalls[j][Len(hcalls[j])]

EndLastCall(j, ended) ==
    [hcalls EXCEPT ![j][Len(hcalls[j])].ended = ended]

\* the on_progress calls a handler makes, in order: those of
\* handlers/ocr.py extract_text, and those of a handler that leaves the
\* message at its default ""
HandlerCalls(type) ==
    IF type = "ocr.extract"
    THEN << <<10, "Loading OCR model...">>, <<30, "Processing image...">>,
            <<80, "Extracting text...">>, <<100, "Complete">> >>
    ELSE << <<25, "Loading">>, <<50, "">>, <<75, "">>, <<100, "Complete">> >>

\* line 238: the running handler makes its next on_progress call
OnProgressCall(j) ==
    /\ j \in JobIds
    /\ wpc[j] = "handler"
    /\ jobs[j].type \in handlers
    /\ Len(hcalls[j]) < MaxCalls
    /\ LET call == HandlerCalls(jobs[j].type)[Len(hcalls[j]) + 1]
       IN  hcalls' = [hcalls EXCEPT
                       ![j] = Append(@, ProgressCall(call[1], call[2], "inside"))]
    /\ wpc' = [wpc EXCEPT ![j] = "progress"]
    /\ UNCHANGED <<lock, events, runVars, handlers, max_workers, jobs,
                   futures, wexc, dispVars, libVars, mmVars, seqVars, thVars>>

\* lines 223-226: the fields are stored inside the lock
OnProgressUpdate(j) ==
    /\ j \in JobIds
    /\ wpc[j] = "progress"
    /\ jobs' = [jobs EXCEPT ![j].progress = LastCall(j).percent,
                            ![j].message = LastCall(j).message]
    /\ wpc' = [wpc EXCEPT ![j] = "progress_emit"]
    /\ UNCHANGED <<auxVars, handlers, max_workers, futures, wexc,
                   dispVars, mmVars, seqVars, thVars>>

\* the event is put in front of what was written before
SendEvent_Front(stream, event) == <<event>> \o stream

\* _send_event: print(json.dumps(event), flush=True) adds a line to stdout
SendEvent(stream, event) == Append(stream, event)

\* lines 228-233: the event is written and on_progress returns; or the write
\* raises, and the handler lets the exception through or catches it
OnProgressEmit(j, outcome) ==
    /\ j \in JobIds
    /\ wpc[j] = "progress_emit"
    /\ \/ /\ outcome = "sent"
          /\ events' = SendEvent(events, ProgressEvent(j, LastCall(j).percent,
                                                       LastCall(j).message))
          /\ hcalls' = EndLastCall(j, "returned")
          /\ wpc' = [wpc EXCEPT ![j] = "handler"]
          /\ UNCHANGED wexc
       \/ /\ outcome = "raised"
          /\ hcalls' = EndLastCall(j, "raised")
          /\ wpc' = [wpc EXCEPT ![j] = "raised"]
          /\ wexc' = [wexc EXCEPT ![j] = "emit error"]
          /\ UNCHANGED events
       \/ /\ outcome = "caught"
          /\ hcalls' = EndLastCall(j, "raised")
          /\ wpc' = [wpc EXCEPT ![j] = "handler"]
          /\ UNCHANGED <<events, wexc>>
    /\ UNCHANGED <<lock, runVars, handlers, max_workers, jobs, futures,
                   dispVars, libVars, mmVars, seqVars, thVars>>

EmitOutcomes == {"sent", "raised", "caught"}

ReportsProgress(j) ==
    \/ OnProgressCall(j)
    \/ OnProgressUpdate(j)
    \/ \E outcome \in EmitOutcomes : OnProgressEmit(j, outcome)

\* two jobs of different types whose handlers report progress
ProgressNext ==
    \/ \E type \in RegisteredTypes : PairStart(type)
    \/ \E j \in 1 .. MaxJobs : Worker(j) \/ ReportsProgress(j)

ProgressSpec == ProgressInit /\ [][ProgressNext]_vars

\* ------------------------------------------------------------------------
\* The terminal events of _run_job on the same output stream
\* ------------------------------------------------------------------------
\* every terminal event is written as a result event
TerminalEvent_AlwaysResult(j, type, data) ==
    [type |-> "result", jobId |-> j, percent |-> 100, message |-> data]

\* the event dicts of lines 247-252 and 267-272 (the timestamp left out;
\* data is carried in the message field)
TerminalEvent(j, type, data) ==
    [type |-> type, jobId |-> j, percent |-> 100, message |-> data]

\* lines 247-254: the result event is written; or json.dumps or the write
\* raises, nothing is written and the exception lands in the except clause
EmitResultEvent(j, sent) ==
    /\ j \in JobIds
    /\ wpc[j] = "emit_result"
    /\ IF sent
       THEN /\ events' = SendEvent(events, TerminalEvent(j, "result", wexc[j]))
            /\ wpc' = [wpc EXCEPT ![j] = "exit"]
            /\ futures' = [futures EXCEPT ![j] = "FINISHED"]
            /\ UNCHANGED wexc
       ELSE /\ wpc' = [wpc EXCEPT ![j] = "raised"]
            /\ wexc' = [wexc EXCEPT ![j] = "emit error"]
            /\ UNCHANGED <<futures, events>>
    /\ UNCHANGED <<jobs, lock, hcalls, runVars, libVars, handlers, max_workers,
                   dispVars, mmVars, seqVars, thVars>>

\* lines 267-272: the error event is written; or the write raises, and the
\* exception leaves _run_job and is stored in the future
EmitErrorEvent(j, sent) ==
    /\ j \in JobIds
    /\ wpc[j] = "emit_error"
    /\ IF sent
       THEN /\ events' = SendEvent(events, TerminalEvent(j, "error", wexc[j]))
            /\ UNCHANGED wexc
       ELSE /\ wexc' = [wexc EXCEPT ![j] = "error event not written"]
            /\ UNCHANGED events
    /\ wpc' = [wpc EXCEPT ![j] = "exit"]
    /\ futures' = [futures EXCEPT ![j] = "FINISHED"]
    /\ UNCHANGED <<jobs, lock, hcalls, runVars, libVars, handlers, max_workers,
                   dispVars, mmVars, seqVars, thVars>>

\* the work item of job j with every event it writes
EventWorker(j) ==
    \/ Dequeue(j)
    \/ RunJobStart(j)
    \/ ReportsProgress(j)
    \/ HandlerReturns(j)
    \/ HandlerRaises(j)
    \/ RunJobSuccess(j)
    \/ \E sent \in BOOLEAN : EmitResultEvent(j, sent)
    \/ RunJobFailure(j)
    \/ \E sent \in BOOLEAN : EmitErrorEvent(j, sent)

\* two jobs of different types whose handlers report progress, with the
\* terminal events they end with
EventNext ==
    \/ \E type \in RegisteredTypes : PairStart(type)
    \/ \E j \in 1 .. MaxJobs : EventWorker(j)

EventSpec == ProgressInit /\ [][EventNext]_vars

\* ------------------------------------------------------------------------
\* EngineServer.run and _handle_request: one input line at a time
\* ------------------------------------------------------------------------
\* what an input line can be
LineShapes ==
    { "blank",              \* only whitespace
      "undecodable",        \* bytes that are not text in stdin's encoding
      "invalid_json",       \* json.loads raises JSONDecodeError
      "non_object",         \* valid JSON that is not an object: [1], 3, "x"
      "no_method",          \* an object without "method" (or an empty one)
      "unhashable_method",  \* an object whose "method" is a list or an object
      "unknown_method",     \* a method that is not in self.handlers
      "bad_params",         \* a known method, parameters it does not take
      "method_raises",      \* a known method that raises
      "unserialisable",     \* a known method whose result json.dumps rejects
      "ok" }                \* a known method that returns

\* the lines the claims about malformed requests list
MalformedShapes ==
    { "undecodable", "invalid_json", "non_object", "no_method",
      "unhashable_method", "unknown_method", "method_raises" }

\* the shapes that are a JSON object
ObjectShapes ==
    LineShapes \ {"blank", "undecodable", "invalid_json", "non_object"}

\* the "id" member of a request: absent, or a value
RequestIds == {None, "req-7"}

Lines ==
    { l \in [shape : LineShapes, id : RequestIds] :
        l.shape \notin ObjectShapes => l.id = None }

\* _success_response
_success_response(req_id) == [id |-> req_id, kind |-> "result", code |-> 0]

\* _error_response
_error_response(req_id, code) == [id |-> req_id, kind |-> "error", code |-> code]

\* an exception leaves the function
Raises == [id |-> None, kind |-> "raises", code |-> 0]

\* _handle_request, lines 109-131
_handle_request(request) ==
    IF request.shape = "non_object"
    THEN Raises                                  \* line 111: no .get
    ELSE IF request.shape = "no_method"
    THEN _error_response(request.id, -32600)     \* line 117
    ELSE IF request.shape = "unhashable_method"
    THEN Raises                                  \* line 120: method in dict
    ELSE IF request.shape = "unknown_method"
    THEN _error_response(request.id, -32601)     \* line 131
    ELSE IF request.shape = "bad_params"
    THEN _error_response(request.id, -32602)     \* line 125
    ELSE IF request.shape = "method_raises"
    THEN _error_response(request.id, -32603)     \* line 128
    ELSE _success_response(request.id)           \* line 123

\* how stdin treats bytes it cannot decode: it raises (errors="strict"), or
\* hands on a string with escapes (errors="surrogateescape")
StdinErrors == {"strict", "surrogateescape"}

\* line 90-93: the next line is read; a blank one is skipped
ReadLine(l, errors) ==
    /\ rpc = "read"
    /\ nlines < MaxLines
    /\ nlines' = nlines + 1
    /\ line' = l
    /\ replies' = << >>
    /\ rpc' = IF l.shape = "blank" THEN "read"
              ELSE IF l.shape = "undecodable" /\ errors = "strict"
              THEN "stopped"
              ELSE "parse"
    /\ UNCHANGED <<lock, events, hcalls, handlers, max_workers, jobVars,
                   dispVars, libVars, mmVars, seqVars, thVars>>

\* lines 96-97: json.loads and _handle_request
ParseAndHandle ==
    /\ rpc = "parse"
    /\ rpc' = IF line.shape \in {"undecodable", "invalid_json"}
              THEN "except_parse"
              ELSE IF _handle_request(line) = Raises
              THEN "except_other"
              ELSE "send"
    /\ UNCHANGED <<lock, events, hcalls, line, replies, nlines, handlers,
                   max_workers, jobVars, dispVars, libVars, mmVars, seqVars, thVars>>

\* _send_response of line 98, inside the try: json.dumps raises for a result
\* it cannot serialise, print can raise; otherwise the line is written
SendResponse(written) ==
    /\ rpc = "send"
    /\ line.shape = "unserialisable" => ~ written
    /\ IF written
       THEN /\ replies' = Append(replies, _handle_request(line))
            /\ rpc' = "read"
       ELSE /\ rpc' = "except_other"
            /\ UNCHANGED replies
    /\ UNCHANGED <<lock, events, hcalls, line, nlines, handlers,
                   max_workers, jobVars, dispVars, libVars, mmVars, seqVars, thVars>>

\* lines 99-107: the except clauses send an error response with id None; an
\* exception of that _send_response leaves run()
SendErrorResponse(written) ==
    /\ rpc \in {"except_parse", "except_other"}
    /\ IF written
       THEN /\ replies' = Append(replies,
                   _error_response(None, IF rpc = "except_parse"
                                         THEN -32700 ELSE -32603))
            /\ rpc' = "read"
       ELSE /\ rpc' = "stopped"
            /\ UNCHANGED replies
    /\ UNCHANGED <<lock, events, hcalls, line, nlines, handlers,
                   max_workers, jobVars, dispVars, libVars, mmVars, seqVars, thVars>>

RunNext ==
    \/ \E l \in Lines, errors \in StdinErrors : ReadLine(l, errors)
    \/ ParseAndHandle
    \/ \E written \in BOOLEAN : SendResponse(written)
    \/ \E written \in BOOLEAN : SendErrorResponse(written)

RunSpec == JobInit /\ [][RunNext]_vars

\* ------------------------------------------------------------------------
\* print(json.dumps(message), flush=True) on the shared sys.stdout: print
\* writes the text, then the line end, in two write calls, and neither
\* _send_response nor _send_event takes a lock
\* ------------------------------------------------------------------------
\* what one write call of a thread puts into the stream
Chunk(thread, text) == [by |-> thread, text |-> text]

\* the requests read while jobs run: well-formed ones that are answered
AnsweredLines == { l \in Lines : l.shape = "ok" }

\* _send_response, line 135: print writes the serialised response
PrintResponseText ==
    /\ rpc = "send"
    /\ stdout' = Append(stdout, Chunk(Dispatcher, "message"))
    /\ rpc' = "send_end"
    /\ UNCHANGED <<lock, events, hcalls, line, replies, nlines, handlers,
                   max_workers, jobVars, dispVars, regyVars, cacheVars, listed,
                   optVars, priorities, job_registry, whandler, mmVars,
                   seqVars, thVars>>

\* line 135: print writes the line end and flushes
PrintResponseEnd ==
    /\ rpc = "send_end"
    /\ stdout' = Append(stdout, Chunk(Dispatcher, "newline"))
    /\ replies' = Append(replies, _handle_request(line))
    /\ rpc' = "read"
    /\ UNCHANGED <<lock, events, hcalls, line, nlines, handlers,
                   max_workers, jobVars, dispVars, regyVars, cacheVars, listed,
                   optVars, priorities, job_registry, whandler, mmVars,
                   seqVars, thVars>>

\* _send_event, line 139, called at lines 247 and 267: print writes the
\* serialised result or error event
PrintEventText(j) ==
    /\ j \in JobIds
    /\ wpc[j] \in {"emit_result", "emit_error"}
    /\ stdout' = Append(stdout, Chunk(PoolThread(j), "message"))
    /\ wpc' = [wpc EXCEPT ![j] = "emit_end"]
    /\ UNCHANGED <<jobs, futures, wexc, lock, events, hcalls, runVars, handlers,
                   max_workers, dispVars, regyVars, cacheVars, listed, optVars,
                   priorities, job_registry, whandler, mmVars, seqVars, thVars>>

\* line 139: print writes the line end and flushes; _run_job returns
PrintEventEnd(j) ==
    /\ j \in JobIds
    /\ wpc[j] = "emit_end"
    /\ stdout' = Append(stdout, Chunk(PoolThread(j), "newline"))
    /\ wpc' = [wpc EXCEPT ![j] = "exit"]
    /\ futures' = [futures EXCEPT ![j] = "FINISHED"]
    /\ UNCHANGED <<jobs, wexc, lock, events, hcalls, runVars, handlers,
                   max_workers, dispVars, regyVars, cacheVars, listed, optVars,
                   priorities, job_registry, whandler, mmVars, seqVars, thVars>>

\* the work item of job j with the two writes of its terminal event
PrintingWorker(j) ==
    \/ Dequeue(j)
    \/ RunJobStart(j)
    \/ HandlerReturns(j)
    \/ HandlerRaises(j)
    \/ RunJobSuccess(j)
    \/ RunJobFailure(j)
    \/ PrintEventText(j)
    \/ PrintEventEnd(j)

\* run() answers requests while the pool runs the jobs started so far
OutputNext ==
    \/ \E type \in RegisteredTypes : PairStart(type)
    \/ \E l \in AnsweredLines, errors \in StdinErrors : ReadLine(l, errors)
    \/ ParseAndHandle
    \/ PrintResponseText
    \/ PrintResponseEnd
    \/ \E j \in 1 .. MaxJobs : PrintingWorker(j)

OutputSpec == JobInit /\ [][OutputNext]_vars

\* ------------------------------------------------------------------------
\* jobs.result (_handle_jobs_result) against a worker that stores the
\* outcome field by field: the lookup is inside the lock, the reads of
\* job.state, job.result and job.error at lines 303-308 are not
\* ------------------------------------------------------------------------
\* line 243, inside the lock
StoreDoneState(j) ==
    /\ j \in JobIds
    /\ wpc[j] = "returned"
    /\ lock = PoolThread(j)
    /\ jobs' = [jobs EXCEPT ![j].state = "done"]
    /\ wpc' = [wpc EXCEPT ![j] = "done_state"]
    /\ UNCHANGED <<auxVars, handlers, max_workers, futures, wexc,
                   dispVars, mmVars, seqVars, thVars>>

\* lines 244-245, and the lock is released
StoreResult(j) ==
    /\ j \in JobIds
    /\ wpc[j] = "done_state"
    /\ lock = PoolThread(j)
    /\ jobs' = MarkDone(jobs, j, wexc[j])
    /\ wpc' = [wpc EXCEPT ![j] = "emit_result"]
    /\ lock' = LockAfterBlock(j)
    /\ UNCHANGED <<events, hcalls, runVars, handlers, max_workers, futures, wexc,
                   dispVars, libVars, mmVars, seqVars, thVars>>

\* line 263, inside the lock
StoreFailedState(j) ==
    /\ j \in JobIds
    /\ wpc[j] = "raised"
    /\ lock = PoolThread(j)
    /\ jobs' = [jobs EXCEPT ![j].state = "failed"]
    /\ wpc' = [wpc EXCEPT ![j] = "failed_state"]
    /\ UNCHANGED <<auxVars, handlers, max_workers, futures, wexc,
                   dispVars, mmVars, seqVars, thVars>>

\* lines 264-265, and the lock is released
StoreError(j) ==
    /\ j \in JobIds
    /\ wpc[j] = "failed_state"
    /\ lock = PoolThread(j)
    /\ jobs' = MarkFailed(jobs, j, wexc[j])
    /\ wpc' = [wpc EXCEPT ![j] = "emit_error"]
    /\ lock' = LockAfterBlock(j)
    /\ UNCHANGED <<events, hcalls, runVars, handlers, max_workers, futures, wexc,
                   dispVars, libVars, mmVars, seqVars, thVars>>

\* _run_job with the stores of its two outcome blocks as separate steps
StoringWorker(j) ==
    \/ Dequeue(j)
    \/ Acquire(j)
    \/ LockedRunJobStart(j)
    \/ HandlerEnds(j)
    \/ StoreDoneState(j)
    \/ StoreResult(j)
    \/ \E sent \in BOOLEAN : EmitResult(j, sent)
    \/ StoreFailedState(j)
    \/ StoreError(j)
    \/ EmitError(j)

\* a jobs.result request has been read and _handle_jobs_result is entered
ResultRequest(j) ==
    /\ dpc = "idle"
    /\ dpc' = "result_lock"
    /\ darg' = j
    /\ UNCHANGED <<dtmp, resp, jobVars, regVars, mmVars, seqVars, thVars>>

\* the dispatcher answers and is ready for the next request
Answer(response) ==
    /\ resp' = response
    /\ dpc' = "idle"
    /\ darg' = UnknownJob

\* lines 297-301: the lookup, inside the lock
ResultLookup ==
    /\ dpc = "result_lock"
    /\ lock = NoHolder
    /\ IF darg \notin JobIds
       THEN Answer(Response("jobs.result", darg, "error", FALSE,
                            "Job not found", NoStatus))
       ELSE /\ dpc' = "result_303"
            /\ UNCHANGED <<darg, resp>>
    /\ UNCHANGED <<dtmp, jobVars, regVars, mmVars, seqVars, thVars>>

\* line 303: if job.state == "done"
ResultTestDone ==
    /\ dpc = "result_303"
    /\ dpc' = IF jobs[darg].state = "done" THEN "result_304" ELSE "result_305"
    /\ UNCHANGED <<darg, dtmp, resp, jobVars, regVars, mmVars, seqVars, thVars>>

\* line 304: return {"success": True, "data": job.result}
ResultReadData ==
    /\ dpc = "result_304"
    /\ Answer(Response("jobs.result", darg, "result", TRUE,
                        jobs[darg].result, NoStatus))
    /\ UNCHANGED <<dtmp, jobVars, regVars, mmVars, seqVars, thVars>>

\* line 305: elif job.state == "failed"
ResultTestFailed ==
    /\ dpc = "result_305"
    /\ dpc' = IF jobs[darg].state = "failed" THEN "result_306" ELSE "result_308"
    /\ UNCHANGED <<darg, dtmp, resp, jobVars, regVars, mmVars, seqVars, thVars>>

\* line 306: return {"success": False, "error": job.error}
ResultReadError ==
    /\ dpc = "result_306"
    /\ Answer(Response("jobs.result", darg, "result", FALSE,
                        jobs[darg].error, NoStatus))
    /\ UNCHANGED <<dtmp, jobVars, regVars, mmVars, seqVars, thVars>>

\* line 308: return {"success": False, "error": f"Job not complete: {job.state}"}
ResultNotComplete ==
    /\ dpc = "result_308"
    /\ Answer(Response("jobs.result", darg, "result", FALSE,
                        "Job not complete",
                        [NoStatus EXCEPT !.state = jobs[darg].state]))
    /\ UNCHANGED <<dtmp, jobVars, regVars, mmVars, seqVars, thVars>>

Result ==
    \/ \E j \in JobIds \cup {UnknownJob} : ResultRequest(j)
    \/ ResultLookup
    \/ ResultTestDone
    \/ ResultReadData
    \/ ResultTestFailed
    \/ ResultReadError
    \/ ResultNotComplete

ResultNext ==
    \/ \E type \in RegisteredTypes : PairStart(type)
    \/ Result
    \/ \E j \in 1 .. MaxJobs : StoringWorker(j)

ResultSpec == JobInit /\ [][ResultNext]_vars

\* ------------------------------------------------------------------------
\* Sequential use of the manager
\* ------------------------------------------------------------------------
DoLoad == \E id \in ModelIds, outcome \in Outcomes : LoadModel(id, outcome)

DoUnload == \E id \in ModelIds, cleanup \in Outcomes : UnloadModel(id, cleanup)

Next == DoLoad \/ DoUnload

Spec == Init /\ [][Next]_vars

\* every call of the manager, made by one thread
ManagerNext ==
    \/ \E id \in ManagerIds, outcome \in Outcomes : LoadModel(id, outcome)
    \/ \E id \in ManagerIds, cleanup \in Outcomes : UnloadModel(id, cleanup)
    \/ \E id \in ManagerIds, outcome \in Outcomes : EnsureLoaded(id, outcome)
    \/ \E id \in RegisterIds : RegisterModel(id)
    \/ \E cleanup \in Outcomes : UnloadAll(cleanup)

ManagerSpec == Init /\ [][ManagerNext]_vars

\* load_model with and without options, and unload_model, by one thread
OptionsNext ==
    \/ \E id \in OptionIds, options \in OptionChoices, outcome \in Outcomes :
          LoadModelOptions(id, options, outcome)
    \/ \E id \in OptionIds, cleanup \in Outcomes : UnloadModel(id, cleanup)

OptionsSpec == Init /\ [][OptionsNext]_vars

\* ------------------------------------------------------------------------
\* Concurrent use of the manager: load_model and unload_model take no lock,
\* so a thread can be pre-empted between any two statements.  Each action
\* below is a run of statements of one thread that the others do not
\* interrupt.
\* ------------------------------------------------------------------------
\* the ids the concurrent callers pass
SharedIds == { "whisper-medium", "whisper-small", "easyocr-en" }

\* load_model lines 225-241: the guards and the admission check
TLoadCheck(t, model_id) ==
    /\ tpc[t] = "idle"
    /\ targ' = [targ EXCEPT ![t] = model_id]
    /\ tpc' = [tpc EXCEPT ![t] =
                 IF model_id \notin DOMAIN models THEN "idle"
                 ELSE IF models[model_id].loaded THEN "idle"
                 ELSE IF ~ _check_vram_budget(model_id, current_vram_usage,
                                              max_vram) THEN "idle"
                 ELSE "loader"]
    /\ UNCHANGED <<srvVars, mmVars, seqVars, ttmp>>

\* load_model line 251: the concrete loader runs, and returns or raises
TLoader(t, outcome) ==
    /\ tpc[t] = "loader"
    /\ tpc' = [tpc EXCEPT ![t] = IF outcome = "returns" THEN "commit" ELSE "idle"]
    /\ UNCHANGED <<srvVars, mmVars, seqVars, targ, ttmp>>

\* load_model lines 251-258: instance, loaded, memory_usage are assigned
TLoadCommit(t) ==
    /\ tpc[t] = "commit"
    /\ models' = Loaded(models, targ[t])
    /\ tpc' = [tpc EXCEPT ![t] = "charge_read"]
    /\ UNCHANGED <<srvVars, max_vram, current_vram_usage, seqVars, targ, ttmp>>

\* load_model line 259, the read of self.current_vram_usage
TChargeRead(t) ==
    /\ tpc[t] = "charge_read"
    /\ ttmp' = [ttmp EXCEPT ![t] = current_vram_usage]
    /\ tpc' = [tpc EXCEPT ![t] = "charge_write"]
    /\ UNCHANGED <<srvVars, mmVars, seqVars, targ>>

\* load_model line 259, the store to self.current_vram_usage
TChargeWrite(t) ==
    /\ tpc[t] = "charge_write"
    /\ current_vram_usage' = Charge(ttmp[t], targ[t])
    /\ tpc' = [tpc EXCEPT ![t] = "idle"]
    /\ ttmp' = [ttmp EXCEPT ![t] = 0]
    /\ UNCHANGED <<srvVars, max_vram, models, seqVars, targ>>

\* unload_model lines 325-341: the guards, freed_vram is read, the record cleared
TUnloadClear(t, model_id) ==
    /\ tpc[t] = "idle"
    /\ model_id \in DOMAIN models
    /\ models[model_id].loaded
    /\ targ' = [targ EXCEPT ![t] = model_id]
    /\ ttmp' = [ttmp EXCEPT ![t] = models[model_id].memory_usage]
    /\ models' = Unloaded(models, model_id)
    /\ tpc' = [tpc EXCEPT ![t] = "release"]
    /\ UNCHANGED <<srvVars, max_vram, current_vram_usage, seqVars>>

\* unload_model line 344
TRelease(t) ==
    /\ tpc[t] = "release"
    /\ current_vram_usage' = Release(current_vram_usage, ttmp[t])
    /\ tpc' = [tpc EXCEPT ![t] = "idle"]
    /\ ttmp' = [ttmp EXCEPT ![t] = 0]
    /\ UNCHANGED <<srvVars, max_vram, models, seqVars, targ>>

ConcNext ==
    \E t \in Threads :
        \/ \E id \in SharedIds : TLoadCheck(t, id)
        \/ \E outcome \in Outcomes : TLoader(t, outcome)
        \/ TLoadCommit(t)
        \/ TChargeRead(t)
        \/ TChargeWrite(t)
        \/ \E id \in SharedIds : TUnloadClear(t, id)
        \/ TRelease(t)

ConcSpec == Init /\ [][ConcNext]_vars

\* ========================================================================
\* Properties
\* ========================================================================

\* C1: in sequential use, after every load_model / unload_model call the
\* counter equals the sum of memory_usage over the loaded models and is at
\* most max_vram.
C1_BudgetInvariant ==
    /\ current_vram_usage = ChargedTotal
    /\ current_vram_usage <= max_vram

\* an unload has just returned, other models are still loaded, and a load
\* was refused on the way
C1_Witness ==
    /\ mret.op = "unload"
    /\ mret.result
    /\ current_vram_usage > 0
    /\ refused # {}

\* C2: with load_model called concurrently the counter never exceeds
\* max_vram (the admission check and the charge act as one atomic step).
C2_ConcurrentBudget == current_vram_usage <= max_vram

OverBudget(model_id) ==
    current_vram_usage + _estimate_vram_usage(model_id) > max_vram

\* C3 as stated: whenever the projected usage of id exceeds max_vram,
\* load_model(id) returns False without calling the loader and changes
\* nothing; and a load of a once-refused id that now fits returns True.
C3_AsStated ==
    [][\A id \in ModelIds, o \in Outcomes :
         LoadModel(id, o) =>
            /\ OverBudget(id) =>
                 /\ mret'.result = FALSE
                 /\ mret'.loader = "not_called"
                 /\ UNCHANGED <<current_vram_usage, models>>
            /\ (id \in refused /\ ~ OverBudget(id)) => mret'.result = TRUE
      ]_vars

\* C3, amended: for a registered model that is not loaded, an over-budget
\* load_model returns False without calling the loader and changes nothing;
\* once a refused id fits, load_model calls the loader and, if the loader
\* returns, returns True with the model loaded and its estimate charged.
C3_RefusedThenAdmitted ==
    [][\A id \in ModelIds, o \in Outcomes :
         (LoadModel(id, o) /\ id \in DOMAIN models /\ ~ models[id].loaded) =>
            /\ OverBudget(id) =>
                 /\ mret'.result = FALSE
                 /\ mret'.loader = "not_called"
                 /\ UNCHANGED <<current_vram_usage, models>>
            /\ (id \in refused /\ ~ OverBudget(id)) =>
                 /\ mret'.loader # "not_called"
                 /\ mret'.loader = "returned" =>
                      /\ mret'.result = TRUE
                      /\ models'[id].loaded
                      /\ current_vram_usage' =
                            current_vram_usage + _estimate_vram_usage(id)
      ]_vars

\* a load that was refused earlier has now been admitted and returned True
C3_Witness ==
    /\ mret.op = "load"
    /\ mret.id \in refused
    /\ mret.result
    /\ mret.loader = "returned"

\* C4: if the concrete loader raises during load_model(id), the call returns
\* False, the model is unloaded with no instance and zero charged cost, and
\* the counter is unchanged.
C4_LoaderRaises ==
    [][\A id \in ModelIds :
         (LoadModel(id, "raises") /\ mret'.loader = "raised") =>
            /\ mret'.result = FALSE
            /\ ~ models'[id].loaded
            /\ models'[id].instance = NoInstance
            /\ models'[id].memory_usage = 0
            /\ current_vram_usage' = current_vram_usage
      ]_vars

\* a loader raised while another model was loaded
C4_Witness ==
    /\ mret.op = "load"
    /\ mret.loader = "raised"
    /\ current_vram_usage > 0

\* C5 as stated: once a job's state is done, failed or cancelled it never
\* changes again.
C5_TerminalPermanent ==
    [][\A j \in JobIds :
         jobs[j].state \in Terminal => jobs'[j].state = jobs[j].state]_vars

\* C6 as stated: the only state changes are pending->running (when a worker
\* has dequeued the job), running->done, running->failed and
\* pending->cancelled, so a job enters a terminal state at most once.
C6_OnlyLegalTransitions ==
    [][\A j \in JobIds :
         jobs'[j].state # jobs[j].state =>
            /\ <<jobs[j].state, jobs'[j].state>> \in
                  { <<"pending", "running">>, <<"running", "done">>,
                    <<"running", "failed">>, <<"pending", "cancelled">> }
            /\ jobs'[j].state = "running" => futures[j] = "RUNNING"
      ]_vars

\* C7: jobs.start with a type that has no registered handler answers with an
\* error, adds no record to the job table and submits nothing to the pool.
C7_UnknownTypeRejected ==
    [][\A type \in JobTypes :
         (JobsStart(type) /\ type \notin handlers) =>
            /\ resp'.method = "jobs.start"
            /\ resp'.kind = "error"
            /\ UNCHANGED <<jobs, futures, wpc>>
      ]_vars

\* a jobs.start was rejected while the job table already held a job
C7_Witness ==
    /\ resp.method = "jobs.start"
    /\ resp.kind = "error"
    /\ Len(jobs) > 0

\* C8 as stated: a cancel request handled while the job's state is pending
\* always returns success and moves the job to cancelled.
C8_PendingCancelSucceeds ==
    [][/\ (CancelTry /\ jobs[darg].state = "pending") =>
             dpc' = "cancel_commit"
       /\ CancelCommit =>
             (resp'.success /\ jobs'[darg].state = "cancelled")
      ]_vars

\* C9: a cancel request for a job already in done, failed or cancelled
\* returns success=false and leaves the job's state, result, error and
\* timestamps unchanged; no step of a cancel request alters such a job.
C9_CancelTerminalNoEffect ==
    [][/\ \A j \in JobIds :
             (CancelCheck(j) /\ jobs[j].state \in Terminal) =>
                /\ resp'.method = "jobs.cancel"
                /\ resp'.jobId = j
                /\ resp'.kind = "result"
                /\ resp'.success = FALSE
                /\ jobs' = jobs
       /\ Cancel =>
             \A j \in JobIds :
                jobs[j].state \in Terminal => jobs'[j] = jobs[j]
      ]_vars

\* a cancel request was refused because the job had failed
C9_Witness ==
    /\ resp.method = "jobs.cancel"
    /\ resp.kind = "result"
    /\ ~ resp.success
    /\ resp.reason = "failed"
    /\ jobs[resp.jobId].state = "failed"

StateIn(j, states) == j \in JobIds /\ jobs[j].state \in states

RefusedAsRunning(j) ==
    /\ resp.method = "jobs.cancel"
    /\ resp.jobId = j
    /\ ~ resp.success
    /\ resp.reason = "Job is already running"

\* C10: a cancel request for a job a worker is executing returns
\* success=false with reason "Job is already running" and changes nothing of
\* the job; the job then reaches done if its handler returns and failed if
\* its handler raises.
C10_CancelRunningRefused ==
    /\ [][(CancelTry /\ (futures[darg] = "RUNNING"
                         \/ jobs[darg].state = "running")) =>
             /\ resp'.method = "jobs.cancel"
             /\ resp'.jobId = darg
             /\ resp'.success = FALSE
             /\ resp'.reason = "Job is already running"
             /\ UNCHANGED <<jobs, futures, wpc, wexc>>
         ]_vars
    /\ \A j \in 1 .. MaxJobs :
         /\ (j \in JobIds /\ RefusedAsRunning(j)) ~> StateIn(j, {"done", "failed"})
         /\ (j \in JobIds /\ wpc[j] = "returned") ~> StateIn(j, {"done"})
         /\ (j \in JobIds /\ wpc[j] = "raised") ~> StateIn(j, {"failed"})

\* a cancel request was refused as already running and the job went on to done
C10_Witness ==
    \E j \in JobIds : RefusedAsRunning(j) /\ jobs[j].state = "done"

\* the records of every job other than j
OthersUnchanged(j) ==
    \A k \in JobIds \ {j} :
        /\ jobs'[k] = jobs[k]
        /\ futures'[k] = futures[k]
        /\ wpc'[k] = wpc[k]
        /\ wexc'[k] = wexc[k]

FailedWith(j, error_msg) ==
    /\ StateIn(j, {"failed"})
    /\ jobs[j].error = error_msg

\* C11: when a handler raises, its job ends in failed with the exception's
\* description stored as the error and stays so, the worker that ran it
\* becomes available again, and no step of that path touches another job.
C11_HandlerRaises ==
    /\ [][\A j \in JobIds :
             /\ (HandlerRaises(j) \/ RunJobFailure(j) \/ EmitError(j)) =>
                    OthersUnchanged(j)
             /\ (RunJobFailure(j) /\ wexc[j] = "handler error") =>
                    /\ jobs'[j].state = "failed"
                    /\ jobs'[j].error = "handler error"
                    /\ jobs'[j].result = jobs[j].result
             /\ FailedWith(j, "handler error") =>
                    /\ jobs'[j].state = "failed"
                    /\ jobs'[j].error = "handler error"
         ]_vars
    /\ \A j \in 1 .. MaxJobs :
         (j \in JobIds /\ wpc[j] = "raised" /\ wexc[j] = "handler error")
            ~> (FailedWith(j, "handler error") /\ ~ Active(j))

\* a handler raised, its job is failed with the description, its worker has
\* left the work item, and a job submitted later ran to done on the pool
C11_Witness ==
    \E j, k \in JobIds :
        /\ j < k
        /\ FailedWith(j, "handler error")
        /\ wpc[j] = "exit"
        /\ jobs[k].state = "done"
        /\ wpc[k] = "exit"

\* every handler that is called eventually returns or raises
HandlersTerminate == \A j \in 1 .. MaxJobs : WF_vars(HandlerEnds(j))

\* C12: with two jobs of different types submitted, (a) no pool thread
\* holds the lock while its handler runs, (b) every jobs.status request is
\* answered, whether or not the handlers ever finish, and (c) if the
\* handlers terminate, every submitted job reaches a terminal state.
C12_BothFinishStatusAnswered ==
    /\ [](\A j \in JobIds :
            wpc[j] \in {"handler", "emit_result", "emit_error"} =>
               lock # PoolThread(j))
    /\ (dpc \in {"status_lock", "status_times"})
          ~> (dpc = "idle" /\ resp.method = "jobs.status")
    /\ HandlersTerminate =>
          \A j \in 1 .. MaxJobs : (j \in JobIds) ~> StateIn(j, Terminal)

\* both jobs, of different types, are terminal, and the last status request
\* was answered while the handler of the job it asked about was running
C12_Witness ==
    /\ Len(jobs) = 2
    /\ jobs[1].type # jobs[2].type
    /\ jobs[1].state \in Terminal
    /\ jobs[2].state \in Terminal
    /\ resp.method = "jobs.status"
    /\ resp.kind = "result"
    /\ resp.status.state = "running"

\* the (percent, message) pairs of a sequence of calls or events
Args(seq) == [i \in 1 .. Len(seq) |-> <<seq[i].percent, seq[i].message>>]

IsReturned(call) == call.ended = "returned"

OfJob(j, event) == event.jobId = j

\* the progress events of job j on the output, in output order
JobEvents(j) ==
    LET Mine(event) == OfJob(j, event) IN SelectSeq(events, Mine)

\* the last on_progress call of job j has returned and no later call is made
Reported(j) == hcalls[j] # << >> /\ IsReturned(LastCall(j))

\* C13: the progress events of each job are on the output in the order of
\* the handler's on_progress calls, the event of a call is there when the
\* call returns, and from the return of on_progress(p, m) to the handler's
\* next call the job holds progress p and message m, which is what
\* jobs.status reports (an empty m by leaving the message out).
C13_ProgressOrder ==
    \A j \in 1 .. MaxJobs :
        /\ Args(JobEvents(j)) = Args(SelectSeq(hcalls[j], IsReturned))
        /\ (j \in JobIds /\ Reported(j)) =>
              /\ jobs[j].progress = LastCall(j).percent
              /\ jobs[j].message = LastCall(j).message
              /\ StatusFields(jobs[j]).progress = LastCall(j).percent
              /\ StatusFields(jobs[j]).message =
                    StatusMessage(LastCall(j).message)

\* both handlers have made their calls and finished, the events of the two
\* jobs are interleaved on the output, and the last call of one handler
\* left the message empty
C13_Witness ==
    /\ Len(events) = 2 * MaxCalls
    /\ events[1].jobId # events[2].jobId
    /\ events[2].jobId # events[3].jobId
    /\ \A j \in 1 .. 2 :
          /\ StateIn(j, {"done"})
          /\ Len(JobEvents(j)) = MaxCalls
    /\ \E j \in 1 .. 2 :
          /\ Reported(j)
          /\ LastCall(j).message = ""
          /\ StatusFields(jobs[j]).message = None

\* run() is done with the line it read last
LineDone == nlines > 0 /\ rpc \in {"read", "stopped"}

\* C14 as stated: every non-blank line produces exactly one response, and
\* the response carries the id of the request whenever the request is a
\* JSON object with an id, also when building or sending the first response
\* failed.
C14_OneCorrelatedResponse ==
    (LineDone /\ line.shape # "blank") =>
       /\ Len(replies) = 1
       /\ (line.shape \in ObjectShapes /\ line.id # None) =>
              replies[1].id = line.id

\* C15 as stated: after a line that is not valid JSON, not an object, has
\* no usable method, names an unknown method or whose method raises, one
\* structured error response is written and run() goes on with the next
\* line; no line ends the read loop.
C15_LoopSurvives ==
    /\ rpc # "stopped"
    /\ (LineDone /\ line.shape \in MalformedShapes) =>
          /\ Len(replies) = 1
          /\ replies[1].kind = "error"
          /\ replies[1].code \in {-32700, -32600, -32601, -32603}

\* C16 as stated: jobs.result answers success=true with the result payload
\* when the job is done, success=false with the captured error when it is
\* failed and success=false with "not complete" when it is pending or
\* running, and no step of the request changes the job.
C16_ResultMatchesState ==
    [][/\ Result => UNCHANGED <<jobs, futures>>
       /\ ResultReadData =>
             /\ resp'.success
             /\ resp'.reason = "result"
       /\ ResultReadError =>
             /\ ~ resp'.success
             /\ resp'.reason \in {"handler error", "emit error"}
       /\ ResultNotComplete =>
             /\ ~ resp'.success
             /\ resp'.reason = "Job not complete"
      ]_vars

\* the step is the return of a call op(id)
Returns(op, id) == mret'.op = op /\ mret'.id = id

\* C17: load_model on an unknown id (False) or an already-loaded id (True)
\* and unload_model on an unknown id (False) or an already-unloaded id
\* (True) change no record and not the counter; a loaded model is never
\* charged a second time.
C17_NoOpCalls ==
    [][\A id \in ManagerIds :
         /\ (Returns("load", id) /\ id \notin DOMAIN models) =>
               /\ mret'.result = FALSE
               /\ UNCHANGED <<models, current_vram_usage>>
         /\ (Returns("load", id) /\ id \in DOMAIN models /\ models[id].loaded) =>
               /\ mret'.result = TRUE
               /\ mret'.loader = "not_called"
               /\ UNCHANGED <<models, current_vram_usage>>
         /\ (Returns("unload", id) /\ id \notin DOMAIN models) =>
               /\ mret'.result = FALSE
               /\ UNCHANGED <<models, current_vram_usage>>
         /\ (Returns("unload", id) /\ id \in DOMAIN models
                                   /\ ~ models[id].loaded) =>
               /\ mret'.result = TRUE
               /\ UNCHANGED <<models, current_vram_usage>>
      ]_vars

\* load_model has just returned True for a model that was loaded already,
\* next to a second loaded model
C17_Witness ==
    /\ mret.op = "load"
    /\ mret.result
    /\ mret.loader = "not_called"
    /\ \E other \in DOMAIN models \ {mret.id} : models[other].loaded

\* what every unload_model of a loaded model does to the record and to the
\* counter, and what a load that went through had charged
UnloadEffect(id) ==
    /\ ~ models'[id].loaded
    /\ models'[id].instance = NoInstance
    /\ models'[id].memory_usage = 0
    /\ current_vram_usage' = current_vram_usage - models[id].memory_usage
    /\ current_vram_usage' >= 0
    /\ (mret.op = "load" /\ mret.id = id /\ mret.loader = "returned") =>
          current_vram_usage' = current_vram_usage - _estimate_vram_usage(id)

LoadCharges(id) ==
    mret'.loader = "returned" =>
       /\ models'[id].memory_usage = _estimate_vram_usage(id)
       /\ current_vram_usage' = current_vram_usage + _estimate_vram_usage(id)

\* C18 as stated: unload_model on a loaded model returns True, leaves the
\* model unloaded with no instance and charged cost 0, and lowers the
\* counter by exactly the cost charged at load, so that load followed by
\* unload restores the counter.
C18_AsStated ==
    [][\A id \in ManagerIds :
         /\ (Returns("unload", id) /\ id \in DOMAIN models
                                   /\ models[id].loaded) =>
               /\ mret'.result = TRUE
               /\ UnloadEffect(id)
         /\ Returns("load", id) => LoadCharges(id)
      ]_vars

\* C18, amended: unload_model on a loaded model leaves the model unloaded
\* with no instance and charged cost 0 and lowers the counter by exactly the
\* cost charged at load (load followed by unload restores the counter); it
\* returns True if the cleanup after the update returns, and False, with the
\* same update made, if the cleanup raises.
C18_UnloadReleases ==
    [][\A id \in ManagerIds :
         /\ (Returns("unload", id) /\ id \in DOMAIN models
                                   /\ models[id].loaded) =>
               /\ mret'.result = (mret'.loader = "cleaned")
               /\ mret'.loader \in {"cleaned", "cleanup_raised"}
               /\ UnloadEffect(id)
         /\ Returns("load", id) => LoadCharges(id)
      ]_vars

\* an unload of the model loaded by the call before it has returned True
\* and left another model loaded and charged
C18_Witness ==
    /\ mret.op = "unload"
    /\ mret.loader = "cleaned"
    /\ mret.result
    /\ ~ models[mret.id].loaded
    /\ current_vram_usage > 0
    /\ current_vram_usage = ChargedTotal

\* C19 as stated: after unload_all returns no model is loaded and the
\* counter is 0, whatever registrations, loads and unloads came before.
C19_UnloadAllClears ==
    mret.op = "unload_all" =>
       /\ \A m \in DOMAIN models : ~ models[m].loaded
       /\ current_vram_usage = 0

\* C20: ensure_loaded(id) either returns the instance of the model, which
\* is then loaded and charged once, or raises and changes no record and not
\* the counter; it raises for an unknown id, for a load the budget refuses
\* and for a load whose loader raises.
C20_EnsureLoaded ==
    [][\A id \in ManagerIds :
         Returns("ensure", id) =>
            /\ mret'.result =>
                  /\ id \in DOMAIN models
                  /\ models'[id].loaded
                  /\ mret'.handle = models'[id].instance
                  /\ mret'.handle # NoInstance
                  /\ models'[id].memory_usage = _estimate_vram_usage(id)
                  /\ \A m \in DOMAIN models \ {id} : models'[m] = models[m]
                  /\ current_vram_usage' =
                        IF models[id].loaded THEN current_vram_usage
                        ELSE current_vram_usage + _estimate_vram_usage(id)
            /\ ~ mret'.result => UNCHANGED <<models, current_vram_usage>>
            /\ id \notin DOMAIN models => ~ mret'.result
            /\ (id \in DOMAIN models /\ ~ models[id].loaded
                  /\ (OverBudget(id) \/ mret'.loader = "raised"
                                     \/ id \notin DEFAULT_MODELS)) =>
                  ~ mret'.result
      ]_vars

\* ensure_loaded has loaded a model and returned its instance after an
\* earlier ensure_loaded or load_model of that model was refused
C20_Witness ==
    /\ mret.op = "ensure"
    /\ mret.result
    /\ mret.loader = "returned"
    /\ mret.id \in refused
    /\ mret.handle = models[mret.id].instance

\* the handler a map from type to handler holds for t after the calls of
\* log: the one of the last register(t, h), unless an unregister(t) came
\* after it
RECURSIVE LastRegistered(_, _)
LastRegistered(log, t) ==
    IF log = << >> THEN "KeyError"
    ELSE LET last == log[Len(log)]
         IN  IF last[2] # t THEN LastRegistered(SubSeq(log, 1, Len(log) - 1), t)
             ELSE IF last[1] = "register" THEN last[3] ELSE "KeyError"

\* C21: after any sequence of register / unregister calls get_handler(t)
\* returns the handler last registered for t, or fails with KeyError if t
\* was not registered since its last unregister; has_handler(t) and
\* list_job_types agree with that, and unregister(t) returned True exactly
\* when t was registered.
C21_RegistryIsMap ==
    /\ \A t \in RegisteredTypes :
          /\ get_handler(_handlers, t) = LastRegistered(rlog, t)
          /\ has_handler({_handlers[i][1] : i \in DOMAIN _handlers}, t)
                = (LastRegistered(rlog, t) # "KeyError")
          /\ Cardinality({i \in DOMAIN _handlers : list_job_types(_handlers)[i] = t})
                = IF LastRegistered(rlog, t) # "KeyError" THEN 1 ELSE 0
    /\ (rlog # << >> /\ rlog[Len(rlog)][1] = "unregister") =>
          rret = (LastRegistered(SubSeq(rlog, 1, Len(rlog) - 1),
                                 rlog[Len(rlog)][2]) # "KeyError")

\* a type was registered, unregistered and registered again with another
\* handler while a second type stayed registered
C21_Witness ==
    /\ Len(rlog) = 4
    /\ rlog[2][1] = "unregister"
    /\ \E t \in RegisteredTypes :
          /\ rlog[1] = <<"register", t, "extract_text">>
          /\ rlog[2][2] = t
          /\ rlog[3] = <<"register", t, "transcribe">>
          /\ rlog[4][2] # t
    /\ Len(_handlers) = 2

\* the expiry instant of the entry the last set of key k wrote, on the clock
ExpiryInstant(k) == ExpiresAt(lastset[k].at, lastset[k].ttl) * TicksPerMs

\* C22: after set(k, v, ttl) with ttl > 0, a get(k) that runs up to the
\* entry's expiry instant returns v and one that runs after it returns
\* absent; the first get(k) or prune() that runs after the expiry instant
\* removes the entry.
C22_TtlExpiry ==
    \A k \in CacheKeys :
       (lastset[k].done /\ lastset[k].ttl > 0) =>
          /\ (cret.op = "get" /\ cret.key = k) =>
                cret.value = IF cret.at <= ExpiryInstant(k)
                             THEN lastset[k].value ELSE None
          /\ (\/ cret.op = "get" /\ cret.key = k
              \/ cret.op = "prune") =>
                (cret.at > ExpiryInstant(k) => ~ files[k].exists)

\* a get at the expiry instant itself has returned the value (the second of
\* the ttl had begun half a millisecond after a full one)
C22_Witness ==
    /\ cret.op = "get"
    /\ lastset[cret.key].done
    /\ lastset[cret.key].ttl > 0
    /\ lastset[cret.key].at = 1
    /\ cret.at = ExpiryInstant(cret.key)
    /\ cret.value = lastset[cret.key].value
    /\ cret.value # None

\* C23: a dispatcher request handler that is at a read of a job's fields
\* holds the server lock, as does a worker that is at a write of them.
C23_FieldsUnderLock ==
    /\ dpc \in {"result_303", "result_304", "result_305", "result_306",
                "result_308"} => lock = Dispatcher
    /\ \A j \in JobIds :
          wpc[j] \in {"done_state", "failed_state"} => lock = PoolThread(j)

\* C24: a job has a result recorded only if its state is done and an error
\* recorded only if its state is failed, and never both.
C24_ResultXorError ==
    \A j \in JobIds :
       /\ jobs[j].result # None => jobs[j].state = "done"
       /\ jobs[j].error # None => jobs[j].state = "failed"
       /\ ~ (jobs[j].result # None /\ jobs[j].error # None)

\* C25: a job record, once created by jobs.start, is never removed or
\* replaced: every step keeps every job of the table under its id with its
\* type, jobs.list returns exactly one entry for every job accepted so far,
\* and jobs.status for an accepted id is not answered with an error.
C25_JobsRetained ==
    [][/\ Len(jobs') >= Len(jobs)
       /\ \A j \in JobIds : jobs'[j].type = jobs[j].type
       /\ JobsList =>
             /\ Len(listed') = Len(jobs)
             /\ \A j \in JobIds :
                   /\ Cardinality({i \in DOMAIN listed' : listed'[i].jobId = j}) = 1
                   /\ \E i \in DOMAIN listed' :
                         listed'[i] = [jobId |-> j, type |-> jobs[j].type,
                                       state |-> jobs[j].state,
                                       progress |-> jobs[j].progress]
       /\ \A j \in JobIds :
             StatusBegin(j) => dpc' = "status_times" /\ UNCHANGED resp
       /\ StatusEnd => resp'.kind = "result" /\ resp'.jobId \in JobIds
      ]_vars

\* jobs.list has returned two entries, one of a finished job, and a
\* status request for the first job is being answered
C25_Witness ==
    /\ Len(listed) = MaxJobs
    /\ listed[1].state \in Terminal
    /\ listed[2].state = "pending"
    /\ dpc = "status_times"
    /\ darg = 1

\* C26: the number of jobs whose work item a pool thread is executing, and
\* the number of jobs in state running, is at most max_workers; a job whose
\* work item is still queued is pending (or was cancelled while pending).
C26_PoolBound ==
    /\ Cardinality({j \in JobIds : wpc[j] \notin {"queued", "dropped", "exit"}})
          <= max_workers
    /\ Cardinality({j \in JobIds : jobs[j].state = "running"}) <= max_workers
    /\ \A j \in JobIds :
          wpc[j] = "queued" => jobs[j].state \in {"pending", "cancelled"}

\* every worker is busy with a running job and a later job waits, pending
C26_Witness ==
    /\ Cardinality({j \in JobIds : jobs[j].state = "running"}) = max_workers
    /\ \E j \in JobIds : wpc[j] = "queued" /\ jobs[j].state = "pending"

\* C27: once future.cancel() has succeeded for a job (the cancel request
\* returns success), no pool thread ever runs its work item: its handler is
\* not invoked, no event is emitted for it, and its state is pending until
\* the request marks it cancelled, never running.
C27_CancelledNeverRuns ==
    \A j \in JobIds :
       futures[j] = "CANCELLED" =>
          /\ wpc[j] \in {"queued", "dropped"}
          /\ jobs[j].state \in {"pending", "cancelled"}
          /\ jobs[j].started_at = None
          /\ jobs[j].result = None /\ jobs[j].error = None
          /\ jobs[j].progress = 0 /\ jobs[j].message = ""

\* a cancel request has returned success, the pool has dropped the work
\* item, and another job has run to the end
C27_Witness ==
    /\ resp.method = "jobs.cancel"
    /\ resp.success
    /\ wpc[resp.jobId] = "dropped"
    /\ jobs[resp.jobId].state = "cancelled"
    /\ \E k \in JobIds : jobs[k].state = "done"

\* C28: a job has a completion timestamp if and only if its state is done,
\* failed or cancelled, and a start timestamp if and only if its state is
\* running, done or failed.
C28_Timestamps ==
    \A j \in JobIds :
       /\ jobs[j].completed_at # None <=> jobs[j].state \in Terminal
       /\ jobs[j].started_at # None <=>
             jobs[j].state \in {"running", "done", "failed"}

\* a job cancelled while pending has a completion and no start timestamp,
\* next to a running job
C28_Witness ==
    \E j, k \in JobIds :
       /\ jobs[j].state = "cancelled"
       /\ jobs[j].completed_at # None
       /\ jobs[j].started_at = None
       /\ jobs[k].state = "running"
       /\ jobs[k].started_at # None

\* the error code the taxonomy gives to a class of failed request (0: the
\* class is not one of the five)
ClassCode(shape) ==
    CASE shape = "invalid_json" -> -32700
      [] shape \in {"non_object", "no_method"} -> -32600
      [] shape = "unknown_method" -> -32601
      [] shape = "bad_params" -> -32602
      [] shape = "method_raises" -> -32603
      [] OTHER -> 0

\* C29 as stated: the response run() chooses for a failed request carries
\* the code of the request's class: -32700 for invalid JSON, -32600 for a
\* request without method or one that is not an object, -32601 for an
\* unknown method, -32602 for parameters that do not fit, -32603 for a
\* failure raised inside the method.
C29_ErrorCodeOfClass ==
    [][(ParseAndHandle /\ ClassCode(line.shape) # 0) =>
          CASE rpc' = "except_parse" -> ClassCode(line.shape) = -32700
            [] rpc' = "except_other" -> ClassCode(line.shape) = -32603
            [] OTHER -> /\ _handle_request(line).kind = "error"
                        /\ _handle_request(line).code = ClassCode(line.shape)
      ]_vars

\* C30: a load of an unloaded known model passes the admission check (the
\* loader is called) exactly when current_vram_usage + estimate(id) <=
\* max_vram: a load that brings the counter exactly to max_vram is admitted,
\* one that would exceed it is refused.
C30_AdmissionBoundary ==
    [][\A id \in ModelIds :
         (Returns("load", id) /\ id \in DOMAIN models /\ ~ models[id].loaded) =>
            /\ (mret'.loader # "not_called") <=>
                  (current_vram_usage + _estimate_vram_usage(id) <= max_vram)
            /\ (current_vram_usage + _estimate_vram_usage(id) = max_vram
                  /\ mret'.loader = "returned") =>
                  (mret'.result /\ current_vram_usage' = max_vram)
      ]_vars

\* a load has brought the counter exactly to max_vram, and a load that
\* would exceed it has been refused
C30_Witness ==
    /\ current_vram_usage = max_vram
    /\ refused # {}
    /\ models[mret.id].loaded
    /\ \E id \in DOMAIN models :
          models[id].loaded /\ models[id].memory_usage < max_vram

\* C34 as stated: with register_model interleaved with load_model and
\* unload_model, also on an id that is loaded, the counter equals the sum
\* of the charged costs of the loaded models after every call.
C34_RegisterKeepsBudget ==
    mret.op \in {"register", "load", "unload"} =>
       current_vram_usage = SumCharged(models, DOMAIN models)

\* C39: load_model of an id that is registered but is not in the static
\* catalog returns False whether or not the budget admits it, and leaves
\* the record unloaded and the counter as it was.
C39_CustomNeverLoads ==
    [][(Returns("load", CustomId) /\ CustomId \in DOMAIN models) =>
          /\ ~ mret'.result
          /\ CustomId \in DOMAIN models'
          /\ ~ models'[CustomId].loaded
          /\ models'[CustomId].memory_usage = 0
          /\ current_vram_usage' = current_vram_usage]_vars

\* the load of the registered custom id passed the admission check while
\* another model was loaded, reached the loader and came back False
C39_Witness ==
    /\ mret.op = "load"
    /\ mret.id = CustomId
    /\ mret.loader = "raised"
    /\ ~ mret.result
    /\ CustomId \in DOMAIN models
    /\ ~ models[CustomId].loaded
    /\ current_vram_usage > 0
    /\ current_vram_usage + _estimate_vram_usage(CustomId) <= max_vram

\* C35 as stated: load_model never modifies the static catalog, and the
\* options recorded by a load_model(id) made without options are the
\* default config of the catalog entry of id (empty if the entry has none),
\* whatever options earlier loads of id were given.
C35_CatalogUntouched ==
    /\ configs = [m \in ConfiguredIds |-> CatalogConfig(m)]
    /\ (mret.op = "load" /\ mret.loader = "returned" /\ opt_arg = NoOptions) =>
          Deref(load_options[mret.id]) =
             IF mret.id \in ConfiguredIds THEN CatalogConfig(mret.id) ELSE {}

\* C40 as stated: with calls of the manager made concurrently by several
\* threads, whenever no call is in progress the counter equals the sum of
\* the charged costs of the loaded models; two concurrent loads of one
\* unloaded model charge its cost once.
C40_QuiescentBudget ==
    (\A t \in Threads : tpc[t] = "idle") => current_vram_usage = ChargedTotal

\* C33 as stated: a jobs.status result carries completedAt only if the
\* state it reports is terminal, and carries startedAt whenever the state
\* it reports is running, done or failed.
C33_StatusSnapshot ==
    (resp.method = "jobs.status" /\ resp.kind = "result") =>
       /\ resp.status.completedAt # None => resp.status.state \in Terminal
       /\ resp.status.state \in {"running", "done", "failed"} =>
             resp.status.startedAt # None

\* C37: whatever priority arguments the jobs were started with, a pool
\* worker that takes a job from the queue takes the oldest one: no job
\* submitted earlier is still waiting in the queue at that moment.
C37_SubmissionOrder ==
    [][\A j \in JobIds :
          (wpc[j] = "queued" /\ wpc'[j] # "queued") =>
             \A k \in 1 .. (j - 1) : wpc[k] # "queued"]_vars

\* a job of default or low priority, submitted first, has been taken by a
\* worker while a high-priority job submitted after it is still queued
C37_Witness ==
    /\ Len(jobs) >= 2
    /\ priorities[1] # "high"
    /\ priorities[2] = "high"
    /\ wpc[1] \notin {"queued", "dropped"}
    /\ wpc[2] = "queued"

\* C36: the worker looks the handler up when it starts the job: the
\* handler it calls is the one the registry holds for the type at that
\* moment, and if the type is no longer registered the lookup fails, the
\* handler variable stays unset and the job ends failed with the
\* no-handler error; no submitted job stays pending or running forever.
C36_HandlerAtStart ==
    /\ [][\A j \in JobIds :
            (wpc[j] = "handler" /\ wpc'[j] # "handler") =>
               IF \E i \in DOMAIN job_registry : job_registry[i][1] = jobs[j].type
               THEN /\ wpc'[j] = "calling"
                    /\ \E i \in DOMAIN job_registry :
                          job_registry[i] = <<jobs[j].type, whandler'[j]>>
               ELSE /\ wpc'[j] = "raised"
                    /\ wexc'[j] = "No handler registered"
                    /\ whandler'[j] = None]_vars
    /\ [][\A j \in JobIds :
            (wpc[j] = "raised" /\ wexc[j] = "No handler registered"
               /\ wpc'[j] # "raised") =>
               /\ jobs'[j].state = "failed"
               /\ jobs'[j].error = "No handler registered"]_vars
    /\ [](\A j \in JobIds :
            whandler[j] = None =>
               jobs[j].state # "done" /\ wexc[j] \notin {"result", "handler error"})
    /\ \A j \in 1 .. MaxJobs :
          (j \in JobIds) ~> StateIn(j, {"done", "failed"})

\* job 1 was submitted while its type was registered and failed because
\* the type was unregistered before a worker started it; job 2, of the same
\* type, ran the handler that was registered in its place afterwards
C36_Witness ==
    /\ Len(jobs) = 2
    /\ jobs[1].type = jobs[2].type
    /\ jobs[1].state = "failed"
    /\ jobs[1].error = "No handler registered"
    /\ whandler[1] = None
    /\ jobs[2].state = "done"
    /\ whandler[2] = "transcribe"

\* the places of the terminal events of job j in the output
TerminalEventsOf(j) ==
    { i \in DOMAIN events :
        events[i].jobId = j /\ events[i].type \in {"result", "error"} }

\* a terminal event of job j is the last event of j, and the state a
\* jobs.status request reads from the record agrees with its type
TerminalEventLast(j) ==
    \A i \in TerminalEventsOf(j) :
       /\ \A k \in DOMAIN events : k > i => events[k].jobId # j
       /\ events[i].type = "result" => StatusFields(jobs[j]).state = "done"
       /\ events[i].type = "error" => StatusFields(jobs[j]).state = "failed"

\* C38 as stated: a job that a worker ran to the end has exactly one
\* terminal event in the output, after all of its progress events, and
\* from then on a status request reads done after a result event and
\* failed after an error event.
C38_AsStated ==
    \A j \in JobIds :
       /\ wpc[j] = "exit" => Cardinality(TerminalEventsOf(j)) = 1
       /\ TerminalEventLast(j)

\* C38, amended: the same, for a job whose error event, if _run_job got to
\* write one, could be written; if that write raises, the job has no
\* terminal event.  No job has a terminal event before its worker is done,
\* and none has two.
C38_OneTerminalEvent ==
    \A j \in JobIds :
       /\ Cardinality(TerminalEventsOf(j)) <= 1
       /\ wpc[j] # "exit" => TerminalEventsOf(j) = {}
       /\ wpc[j] = "exit" =>
             (TerminalEventsOf(j) = {} <=> wexc[j] = "error event not written")
       /\ TerminalEventLast(j)

\* a job whose handler reported progress and returned, whose result event
\* could not be written, and which ended with an error event after its
\* progress events, in state failed
C38_Witness ==
    \E j \in JobIds :
       /\ wpc[j] = "exit"
       /\ jobs[j].state = "failed"
       /\ jobs[j].result = "result"
       /\ \E i \in TerminalEventsOf(j) :
             /\ events[i].type = "error"
             /\ events[i].message = "emit error"
             /\ \E k \in 1 .. (i - 1) :
                   events[k].jobId = j /\ events[k].type = "progress"

\* C32 as stated: no two threads are inside a write of an outbound message
\* at the same time, and every line of the output is one whole message:
\* the text of a message is followed by its own line end before anything
\* else is written.
C32_WholeLines ==
    /\ Cardinality({j \in JobIds : wpc[j] = "emit_end"})
          + (IF rpc = "send_end" THEN 1 ELSE 0) <= 1
    /\ \A i \in DOMAIN stdout :
          (stdout[i].text = "message" /\ i < Len(stdout)) =>
             stdout[i + 1] = Chunk(stdout[i].by, "newline")

\* the method of the request the dispatcher is inside
MethodOf(pc) ==
    CASE pc \in {"status_lock", "status_times"} -> "jobs.status"
      [] pc = "list_lock" -> "jobs.list"
      [] pc \in {"cancel_lock", "cancel_try", "cancel_commit"} -> "jobs.cancel"
      [] OTHER -> None

\* C31: a handler that never returns keeps its own job in running and its
\* own worker busy and nothing else: (a) its job stays running, its future
\* stays RUNNING, it holds no lock and it stays where it is; (b) the
\* dispatcher leaves a request only with the response to that request;
\* (c) every submitted job whose handler terminates reaches a terminal
\* state unless max_workers handlers are stuck; (d) while a handler is
\* stuck every status, list and cancel request the dispatcher has read is
\* answered.
C31_StuckHandlerAlone ==
    /\ [](\A j \in JobIds :
            Hangs(j) => /\ jobs[j].state = "running"
                        /\ futures[j] = "RUNNING"
                        /\ lock # PoolThread(j)
                        /\ Busy <= max_workers)
    /\ [][/\ \A j \in JobIds : Hangs(j) => Hangs(j)'
          /\ (dpc # "idle" /\ dpc' = "idle") => resp'.method = MethodOf(dpc)
         ]_vars
    /\ <>[](\A j \in JobIds :
               jobs[j].type \notin HangingTypes =>
                  (jobs[j].state \in Terminal \/ Stuck >= max_workers))
    /\ (Stuck > 0 /\ dpc # "idle") ~> (dpc = "idle")

\* a handler hangs on a pool of two workers, a job submitted after it ran
\* to done on the other worker, and a cancel of the stuck job was answered
C31_Witness ==
    \E j, k \in JobIds :
        /\ j < k
        /\ Hangs(j)
        /\ max_workers = 2
        /\ jobs[k].state = "done"
        /\ wpc[k] = "exit"
        /\ resp = Response("jobs.cancel", j, "result", FALSE,
                           "Job is already running", NoStatus)



====
